---- MODULE Spec2Model ----
(***************************************************************************)
(* State store, data model and stack reconciler of iam-ra-cli.             *)
(*                                                                         *)
(* Modelling conventions                                                   *)
(*   - a JSON object / Python dict is a function whose DOMAIN is its key   *)
(*     set; the empty dict is the empty function <<>>.                     *)
(*   - a dataclass instance is a record with exactly the class's fields.   *)
(*   - Python None / JSON null is the record None.                         *)
(*   - an f-string name or path is the tuple of its segments.              *)
(*   - an ARN string is [arn |-> the tuple of its colon-separated          *)
(*     segments]; the resource segment is itself the tuple of its          *)
(*     slash-separated parts.                                              *)
(*   - a raised (uncaught) Python exception is the record Raised(kind).    *)
(***************************************************************************)
EXTENDS Integers, Sequences, FiniteSets, TLC

VARIABLES
    stacks,     \* CloudFormation: stack name -> [status, cfg, pending]
    s3,         \* blob store: object key -> bytes (DOMAIN = existing objects)
    ssm,        \* pointer store: the state-location parameter, or None
    cache,      \* local cache file of the namespace: [data, mtime], or None
    files,      \* local CA key files: path -> text (DOMAIN = existing files)
    clock,      \* time.time(), in seconds
    last,       \* the last handler run: its name, arguments, result, remote calls
    blob,       \* data model harness: the JSON object handed to from_json
    parsed,     \* data model harness: State.from_json(blob), or NotYet
    dumped,     \* data model harness: parsed.to_json(), or NotYet
    runs,       \* workflow invocations made so far
    procs       \* concurrent invocations: each one's position and in-memory state

worldvars == <<stacks, s3, ssm, cache, files, clock, last, runs, procs>>
jsonvars == <<blob, parsed, dumped>>
vars == <<stacks, s3, ssm, cache, files, clock, last, blob, parsed, dumped, runs, procs>>

-----------------------------------------------------------------------------
(* Values *)

None == [none |-> TRUE]
NotYet == [notyet |-> TRUE]
Raised(kind) == [raise |-> kind]
IsRaised(x) == "raise" \in DOMAIN x

NS == "acme"
Region == "ap-southeast-2"
ScopeNames == {"default", "cm"}
RoleNames == {"admin"}
HostNames == {"web1"}
CAModes == {"self-signed", "pca-new", "pca-existing"}

MkArn(service, resource) ==
    [arn |-> <<"arn", "aws", service, Region, "123456789012", resource>>]

BucketArn == [arn |-> <<"arn", "aws", "s3", "", "", <<"bucket">>>>]
KmsArn == MkArn("kms", <<"key", "k1">>)
PolicyArn == MkArn("iam", <<"policy", "ReadOnly">>)
PcaArn == MkArn("acm-pca", <<"certificate-authority", "ca1">>)

\* models/__init__.py Arn.__new__: fewer than 6 segments or a first segment
\* other than "arn" raises ValueError.
ArnValid(value) == Len(value.arn) >= 6 /\ value.arn[1] = "arn"

\* models/__init__.py Arn.resource_id: everything after the first "/" of the
\* resource, or the whole resource when it has no "/".
resource_id(value) == IF Len(value.arn[6]) > 1 THEN Tail(value.arn[6]) ELSE value.arn[6]

-----------------------------------------------------------------------------
(* Data model: dataclasses and their JSON form *)

StateFields == {"namespace", "region", "version", "init", "cas", "roles",
                "hosts", "k8s_clusters", "k8s_workloads"}

Fields(cls) ==
    CASE cls = "State" -> StateFields
      [] cls = "Init" -> {"stack_name", "bucket_arn", "kms_key_arn"}
      [] cls = "CA" -> {"stack_name", "mode", "trust_anchor_arn", "pca_arn"}
      [] cls = "Role" -> {"stack_name", "role_arn", "profile_arn", "policies", "scope"}
      [] cls = "Host" -> {"stack_name", "hostname", "role_name",
                          "certificate_secret_arn", "private_key_secret_arn"}
      [] cls = "K8sCluster" -> {"name"}
      [] cls = "K8sWorkload" -> {"name", "cluster_name", "role_name", "namespace"}

\* Fields that carry a default in the dataclass definition.
Defaulted(cls) ==
    CASE cls = "State" -> StateFields \ {"namespace", "region", "version"}
      [] cls = "CA" -> {"pca_arn"}
      [] cls = "Role" -> {"policies", "scope"}
      [] cls = "K8sWorkload" -> {"namespace"}
      [] OTHER -> {}

Default(cls, f) ==
    CASE cls = "State" /\ f = "init" -> None
      [] cls = "State" /\ f # "init" -> <<>>
      [] cls = "CA" -> None
      [] cls = "Role" /\ f = "policies" -> <<>>
      [] cls = "Role" /\ f = "scope" -> "default"
      [] cls = "K8sWorkload" -> "default"

\* The type hint of a field, as _from_dict dispatches on it.
FieldType(cls, f) ==
    CASE cls = "State" /\ f = "init" -> "Init?"
      [] cls = "State" /\ f = "cas" -> "dict:CA"
      [] cls = "State" /\ f = "roles" -> "dict:Role"
      [] cls = "State" /\ f = "hosts" -> "dict:Host"
      [] cls = "State" /\ f = "k8s_clusters" -> "dict:K8sCluster"
      [] cls = "State" /\ f = "k8s_workloads" -> "dict:K8sWorkload"
      [] cls = "CA" /\ f = "mode" -> "CAMode"
      [] cls = "CA" /\ f = "pca_arn" -> "Arn?"
      [] cls = "Role" /\ f = "policies" -> "tuple:Arn"
      [] f \in {"bucket_arn", "kms_key_arn", "trust_anchor_arn", "role_arn",
                "profile_arn", "certificate_secret_arn",
                "private_key_secret_arn"} -> "Arn"
      [] OTHER -> "str"

IsDataclass(t) == t \in {"State", "Init", "CA", "Role", "Host", "K8sCluster", "K8sWorkload"}
ValueType(t) ==
    CASE t = "dict:CA" -> "CA"
      [] t = "dict:Role" -> "Role"
      [] t = "dict:Host" -> "Host"
      [] t = "dict:K8sCluster" -> "K8sCluster"
      [] t = "dict:K8sWorkload" -> "K8sWorkload"
      [] t = "Init?" -> "Init"
      [] t = "Arn?" -> "Arn"
      [] t = "tuple:Arn" -> "Arn"

\* _from_dict: "if data is None: return None", whatever the type asked for.
\* Strings and tuples of this model are never null.
IsNull(t, data) == t \notin {"str", "CAMode", "tuple:Arn"} /\ data = None

\* TRUE iff _from_dict(t, data) returns instead of raising: Arn() and
\* CAMode() validate, and cls(**kwargs) needs every field without a default.
RECURSIVE from_dict_ok(_, _)
from_dict_ok(t, data) ==
    IF IsNull(t, data) THEN TRUE ELSE
    CASE t \in {"Init?", "Arn?"} -> from_dict_ok(ValueType(t), data)
      [] t = "Arn" -> ArnValid(data)
      [] t = "CAMode" -> data \in CAModes
      [] IsDataclass(t) ->
            /\ (Fields(t) \ Defaulted(t)) \subseteq DOMAIN data
            /\ \A f \in Fields(t) \cap DOMAIN data :
                    from_dict_ok(FieldType(t, f), data[f])
      [] t \in {"dict:CA", "dict:Role", "dict:Host", "dict:K8sCluster",
                "dict:K8sWorkload", "tuple:Arn"} ->
            \A k \in DOMAIN data : from_dict_ok(ValueType(t), data[k])
      [] OTHER -> TRUE

\* models/__init__.py _from_dict, on data for which it does not raise.
RECURSIVE from_dict(_, _)
from_dict(t, data) ==
    IF IsNull(t, data) THEN None ELSE
    CASE t \in {"Init?", "Arn?"} -> from_dict(ValueType(t), data)
      [] IsDataclass(t) ->
            [f \in Fields(t) |->
                IF f \in DOMAIN data
                THEN from_dict(FieldType(t, f), data[f])
                ELSE Default(t, f)]
      [] t \in {"dict:CA", "dict:Role", "dict:Host", "dict:K8sCluster",
                "dict:K8sWorkload", "tuple:Arn"} ->
            [k \in DOMAIN data |-> from_dict(ValueType(t), data[k])]
      [] OTHER -> data

Without(d, key) == [k \in DOMAIN d \ {key} |-> d[k]]

\* The text of a stored object that is not a JSON document, and the text of
\* a zero-length object: json.loads raises on both.
NotJson == [notjson |-> TRUE]
EmptyText == [empty |-> TRUE]

\* A reader that forgets the v1 generation: a lone "ca" is dropped, not lifted.
from_json_lift_drop(raw) ==
    IF "ca" \in DOMAIN raw THEN Without(raw, "ca") ELSE raw

\* The v1 -> v2 rewrite State.from_json applies to the decoded object.
from_json_lift(raw) ==
    IF "ca" \in DOMAIN raw /\ "cas" \notin DOMAIN raw
    THEN ("cas" :> (IF raw["ca"] # None THEN ("default" :> raw["ca"]) ELSE <<>>))
            @@ Without(raw, "ca")
    ELSE IF "ca" \in DOMAIN raw
         THEN Without(raw, "ca")
         ELSE raw

\* models/__init__.py State.from_json: json.loads, the ca/cas rewrite, then
\* _from_dict(State, raw).  Any exception propagates to the caller.
from_json(data) ==
    IF data \in {NotJson, EmptyText}
    THEN Raised("JSONDecodeError")
    ELSE IF ~from_dict_ok("State", from_json_lift(data))
         THEN Raised("ValueError")
         ELSE from_dict("State", from_json_lift(data))

\* models/__init__.py State.to_json: json.dumps(asdict(self)); every field
\* of every nested dataclass becomes a key, None becomes null.
RECURSIVE asdict(_, _)
asdict(t, obj) ==
    CASE t \in {"Init?", "Arn?"} ->
            IF obj = None THEN None ELSE asdict(ValueType(t), obj)
      [] IsDataclass(t) ->
            [f \in Fields(t) |-> asdict(FieldType(t, f), obj[f])]
      [] t \in {"dict:CA", "dict:Role", "dict:Host", "dict:K8sCluster",
                "dict:K8sWorkload"} ->
            [k \in DOMAIN obj |-> asdict(ValueType(t), obj[k])]
      [] OTHER -> obj

\* A writer that still emits the v1 layout: the default scope under "ca".
to_json_v1(state) ==
    ("ca" :> (IF "default" \in DOMAIN state.cas
              THEN asdict("CA", state.cas["default"]) ELSE None))
        @@ Without(asdict("State", state), "cas")

to_json(state) == asdict("State", state)

\* models/__init__.py State.is_initialized
is_initialized(state) == state.init # None

\* models/__init__.py State.ca (backward-compat property): cas.get("default")
state_ca(state) == IF "default" \in DOMAIN state.cas THEN state.cas["default"] ELSE None

-----------------------------------------------------------------------------
(* Bounds *)

MaxFaults == 1      \* remote calls kinds that may fail within one handler run
MaxClock == 301     \* the clock stops advancing here
MaxRuns == 2        \* workflow invocations in one behaviour
MaxInvocations == 1 \* workflow invocations in one behaviour of SpecWorkflow

-----------------------------------------------------------------------------
(* Results, errors, the fault oracle *)

Ok(v) == [ok |-> v]
Err(e) == [err |-> e]
IsOk(r) == "ok" \in DOMAIN r
IsErr(r) == "err" \in DOMAIN r

\* Kinds of remote call that the environment may fail in a handler run.
FaultPoints == {"ssm.get_parameter", "ssm.put_parameter",
                "s3.get_object:state", "s3.put_object:state",
                "s3.head_object", "s3.get_object", "s3.put_object",
                "s3.delete_object",
                "cfn.create_stack", "cfn.update_stack", "cfn.delete_stack",
                "cfn.settle:create", "cfn.settle:update", "cfn.settle:delete",
                "cfn.hang", "cfn.describe_stack_events", "cfn.no_failure_event",
                "sops"}

FaultSets(points) == {F \in SUBSET points : Cardinality(F) <= MaxFaults}

\* str(e) of a botocore ClientError that is not one of the codes the code
\* looks for.
ClientErrorText == "An error occurred (AccessDenied)"

-----------------------------------------------------------------------------
(* Names and paths *)

\* operations/infra.py _stack_name
init_stack_name(namespace) == <<"iam-ra", namespace, "init">>
\* operations/ca.py _stack_name (v1, unscoped)
rootca_stack_name(namespace) == <<"iam-ra", namespace, "rootca">>
\* operations/role.py _stack_name
role_stack_name(namespace, role_name) == <<"iam-ra", namespace, "role", role_name>>
\* operations/host.py _stack_name
host_stack_name(namespace, hostname) == <<"iam-ra", namespace, "host", hostname>>
\* the scoped CA stack name migrate.py and workflows/ca.py expect:
\* {app}-{namespace}-ca-{scope}
ca_stack_name(namespace, scope) == <<"iam-ra", namespace, "ca", scope>>

\* workflows/migrate.py _old_ca_cert_s3_key
old_ca_cert_s3_key(namespace) == <<namespace, "ca", "certificate.pem">>
\* the scoped certificate key: {namespace}/scopes/{scope}/ca/certificate.pem
ca_cert_s3_key(namespace, scope) == <<namespace, "scopes", scope, "ca", "certificate.pem">>
\* workflows/migrate.py _old_ca_key_local_path
old_ca_key_local_path(namespace) == <<"data_dir", namespace, "ca-private-key.pem">>
\* the scoped key file: {data_dir}/{namespace}/scopes/{scope}/ca-private-key.pem
ca_key_local_path(namespace, scope) == <<"data_dir", namespace, "scopes", scope, "ca-private-key.pem">>
\* operations/host.py _cert_s3_key, _key_s3_key
host_cert_s3_key(namespace, hostname) == <<namespace, "hosts", hostname, "certificate.pem">>
host_key_s3_key(namespace, hostname) == <<namespace, "hosts", hostname, "private-key.pem">>

\* lib/state.py save: key = f"{state.namespace}/state.json"
state_key(namespace) == <<namespace, "state.json">>

\* str.encode("utf-8") / bytes.decode("utf-8")
encode(text) == [bytes |-> text]
decode(body) == body.bytes

-----------------------------------------------------------------------------
(* The world a handler runs against.  A handler is a function from a world  *)
(* W (the variables, the clock reading and the log of remote calls made so  *)
(* far) and a fault set F to a new world and a result.                      *)

World == [stacks |-> stacks, s3 |-> s3, ssm |-> ssm, cache |-> cache,
          files |-> files, now |-> clock, calls |-> <<>>, hit |-> {}]

Call(W, api, target) == [W EXCEPT !.calls = Append(@, <<api, target>>)]
\* The environment made the call of kind p fail.
Hit(W, p) == [W EXCEPT !.hit = @ \cup {p}]
Ret(W, r) == [w |-> W, r |-> r]

\* A handler's assignment x = ... followed by the rest of its body.
Bind(x, rest(_)) == rest(x)

Changed(W1, W2) == {c \in {"stacks", "s3", "ssm", "cache", "files"} : W1[c] # W2[c]}

-----------------------------------------------------------------------------
(* lib/storage/file.py *)

\* Cache TTL in seconds (5 minutes)
CACHE_TTL == 300

\* A freshness test that still accepts a file exactly ttl_seconds old.
is_fresh_inclusive(W, ttl_seconds) ==
    IF W.cache = None THEN FALSE
    ELSE W.now - W.cache.mtime <= ttl_seconds

\* file.is_fresh
is_fresh(W, ttl_seconds) ==
    IF W.cache = None THEN FALSE
    ELSE W.now - W.cache.mtime < ttl_seconds

\* file.read
file_read(W) == IF W.cache = None THEN None ELSE W.cache.data

\* file.write
file_write(W, data) == [W EXCEPT !.cache = [data |-> data, mtime |-> W.now]]

\* file.delete
file_delete(W) == [W EXCEPT !.cache = None]

-----------------------------------------------------------------------------
(* lib/state.py *)

\* f"s3://{bucket}/{key}"
S3Uri(bucket, key) == [bucket |-> bucket, key |-> key]

\* _parse_s3_uri
parse_s3_uri(uri) == <<uri.bucket, uri.key>>

\* _get_state_location
get_state_location(W0, F, namespace) ==
    LET W == Call(W0, "ssm.get_parameter", namespace) IN
    IF "ssm.get_parameter" \in F
    THEN Ret(Hit(W, "ssm.get_parameter"), Err([kind |-> "SSMReadError", reason |-> ClientErrorText]))
    ELSE IF W.ssm = None
         THEN Ret(W, Err([kind |-> "SSMReadError", reason |-> "Parameter not found"]))
         ELSE Ret(W, Ok(W.ssm))

\* _set_state_location
set_state_location(W0, F, namespace, s3_uri) ==
    LET W == Call(W0, "ssm.put_parameter", namespace) IN
    IF "ssm.put_parameter" \in F
    THEN Ret(Hit(W, "ssm.put_parameter"), Err([kind |-> "SSMWriteError", reason |-> ClientErrorText]))
    ELSE Ret([W EXCEPT !.ssm = s3_uri], Ok(None))

\* "not found" in reason.lower()
ContainsNotFound(reason) == reason \in {"Parameter not found"}

StateLoadError(namespace, reason) ==
    [kind |-> "StateLoadError", namespace |-> namespace, reason |-> reason]
StateSaveError(namespace, reason) ==
    [kind |-> "StateSaveError", namespace |-> namespace, reason |-> reason]

\* load, from "# Get S3 location from SSM" on.
load_remote(W0, F, namespace) ==
    Bind(get_state_location(W0, F, namespace), LAMBDA loc :
    IF IsErr(loc.r) /\ ContainsNotFound(loc.r.err.reason)
    THEN Ret(loc.w, Ok(None))
    ELSE IF IsErr(loc.r)
    THEN Ret(loc.w, Err(StateLoadError(namespace, loc.r.err.reason)))
    ELSE
      LET s3_uri == loc.r.ok
          key == parse_s3_uri(s3_uri)[2]
          W == Call(loc.w, "s3.get_object", key)
      IN
      IF "s3.get_object:state" \in F
      THEN Ret(Hit(W, "s3.get_object:state"), Err(StateLoadError(namespace, ClientErrorText)))
      ELSE IF key \notin DOMAIN W.s3
      THEN Ret(W, Err(StateLoadError(namespace, "State file not found")))
      ELSE
        LET data == decode(W.s3[key]) IN
        Bind(from_json(data), LAMBDA state :
        IF IsRaised(state)
        THEN Ret(W, state)
        ELSE Ret(file_write(W, data), Ok(state))))

\* load
load(W, F, namespace, skip_cache) ==
    IF ~skip_cache /\ is_fresh(W, CACHE_TTL) /\ file_read(W) \notin {None, EmptyText}
    THEN Bind(from_json(file_read(W)), LAMBDA state :
         Ret(W, IF IsRaised(state) THEN state ELSE Ok(state)))
    ELSE load_remote(W, F, namespace)

\* A save without the init guard: it writes to a fixed bucket.
save_unguarded(W0, F, state) ==
    LET key == state_key(state.namespace)
        data == to_json(state)
        W1 == Call(W0, "s3.put_object", key)
    IN
    IF "s3.put_object:state" \in F
    THEN Ret(Hit(W1, "s3.put_object:state"), Err(StateSaveError(state.namespace, "Failed to write to S3")))
    ELSE
      LET W2 == [W1 EXCEPT !.s3 = (key :> encode(data)) @@ @] IN
      Bind(set_state_location(W2, F, state.namespace, S3Uri(<<"bucket">>, key)), LAMBDA ptr :
      IF IsErr(ptr.r)
      THEN Ret(ptr.w, Err(StateSaveError(state.namespace, "Failed to update SSM")))
      ELSE Ret(file_write(ptr.w, data), Ok(None)))

\* save
save(W0, F, state) ==
    IF state.init = None
    THEN Ret(W0, Err(StateSaveError(state.namespace,
                                    "Cannot save state without init (no bucket configured)")))
    ELSE
      LET bucket == resource_id(state.init.bucket_arn)
          key == state_key(state.namespace)
          data == to_json(state)
          W1 == Call(W0, "s3.put_object", key)
      IN
      IF "s3.put_object:state" \in F
      THEN Ret(Hit(W1, "s3.put_object:state"), Err(StateSaveError(state.namespace, "Failed to write to S3")))
      ELSE
        LET W2 == [W1 EXCEPT !.s3 = (key :> encode(data)) @@ @] IN
        Bind(set_state_location(W2, F, state.namespace, S3Uri(bucket, key)), LAMBDA ptr :
        IF IsErr(ptr.r)
        THEN Ret(ptr.w, Err(StateSaveError(state.namespace, "Failed to update SSM")))
        ELSE Ret(file_write(ptr.w, data), Ok(None)))

\* save in the three writes it makes one after the other; the calls of
\* another process can come between them.
\* A blob write that keeps the roles the stored blob has beside the ones
\* it writes.
save_put_merged(W, state) ==
    LET key == state_key(state.namespace)
        stored == from_json(decode(W.s3[key]))
        merged == [state EXCEPT !.roles = @ @@ stored.roles]
    IN [W EXCEPT !.s3 = (key :> encode(to_json(IF key \in DOMAIN W.s3
                                                THEN merged ELSE state))) @@ @]

\* save: s3.put_object(Bucket=bucket, Key=key, Body=data.encode("utf-8"))
save_put(W, state) ==
    [W EXCEPT !.s3 = (state_key(state.namespace) :> encode(to_json(state))) @@ @]

\* save: _set_state_location(ssm, state.namespace, s3_uri)
save_pointer(W, state) ==
    set_state_location(W, {}, state.namespace,
                       S3Uri(resource_id(state.init.bucket_arn),
                             state_key(state.namespace))).w

\* save: file.write(cache_path, data)
save_cache(W, state) == file_write(W, to_json(state))

\* invalidate_cache
invalidate_cache(W, namespace) == file_delete(W)

-----------------------------------------------------------------------------
(* Sample records *)

MkState(version, init, cas, roles, hosts) ==
    [namespace |-> NS, region |-> Region, version |-> version, init |-> init,
     cas |-> cas, roles |-> roles, hosts |-> hosts,
     k8s_clusters |-> <<>>, k8s_workloads |-> <<>>]

InitRec == [stack_name |-> init_stack_name(NS), bucket_arn |-> BucketArn,
            kms_key_arn |-> KmsArn]

\* The outputs a stack publishes once deployed, by stack name.
TrustAnchorArnOf(stack_name) == MkArn("rolesanywhere", <<"trust-anchor", stack_name>>)
RoleArnOf(stack_name) == MkArn("iam", <<"role", stack_name>>)
ProfileArnOf(stack_name) == MkArn("rolesanywhere", <<"profile", stack_name>>)
CertSecretArnOf(stack_name) == MkArn("secretsmanager", <<"secret", stack_name, "cert">>)
KeySecretArnOf(stack_name) == MkArn("secretsmanager", <<"secret", stack_name, "key">>)

CARec(stack_name) ==
    [stack_name |-> stack_name, mode |-> "self-signed",
     trust_anchor_arn |-> TrustAnchorArnOf(stack_name), pca_arn |-> None]

RoleRec(name, policies, scope) ==
    [stack_name |-> role_stack_name(NS, name),
     role_arn |-> RoleArnOf(role_stack_name(NS, name)),
     profile_arn |-> ProfileArnOf(role_stack_name(NS, name)),
     policies |-> policies, scope |-> scope]

HostRec(hostname, role_name) ==
    [stack_name |-> host_stack_name(NS, hostname), hostname |-> hostname,
     role_name |-> role_name,
     certificate_secret_arn |-> CertSecretArnOf(host_stack_name(NS, hostname)),
     private_key_secret_arn |-> KeySecretArnOf(host_stack_name(NS, hostname))]

\* The blob a v1 release wrote: a singular "ca", roles without "scope".
V1Blob(roleNames, hostNames) ==
    [namespace |-> NS, region |-> Region, version |-> "1.0.0",
     init |-> InitRec,
     ca |-> CARec(rootca_stack_name(NS)),
     roles |-> [r \in roleNames |-> Without(RoleRec(r, <<>>, "default"), "scope")],
     hosts |-> [h \in hostNames |-> HostRec(h, "admin")],
     k8s_clusters |-> <<>>, k8s_workloads |-> <<>>]

SampleStates ==
    {MkState("2.0.0", i, c, r, <<>>) :
        i \in {None, InitRec},
        c \in {<<>>, [default |-> CARec(ca_stack_name(NS, "default"))]},
        r \in {<<>>, [admin |-> RoleRec("admin", <<PolicyArn>>, "default")]}}

-----------------------------------------------------------------------------
(* CloudFormation as lib/cfn.py sees it.  stacks maps a stack name to        *)
(* [status, cfg, prev]: cfg is the template and parameters last submitted,   *)
(* prev the ones to roll back to while an operation is in progress.  A name  *)
(* outside DOMAIN stacks makes describe_stacks raise "does not exist".       *)
(* describe_stacks itself always answers; the calls that change a stack,     *)
(* the progress of an operation and describe_stack_events can fail.          *)

Cfg(template_body, parameters) == [template |-> template_body, parameters |-> parameters]

Updatable == {"CREATE_COMPLETE", "UPDATE_COMPLETE", "UPDATE_ROLLBACK_COMPLETE"}
InProgress == {"CREATE_IN_PROGRESS", "UPDATE_IN_PROGRESS", "DELETE_IN_PROGRESS"}

\* The Outputs section of a deployed stack, by output key.
OutputsOf(stack_name) ==
    [TrustAnchorArn |-> TrustAnchorArnOf(stack_name),
     RoleArn |-> RoleArnOf(stack_name),
     ProfileArn |-> ProfileArnOf(stack_name),
     CertificateSecretArn |-> CertSecretArnOf(stack_name),
     PrivateKeySecretArn |-> KeySecretArnOf(stack_name),
     BucketName |-> resource_id(BucketArn),
     BucketArn |-> BucketArn,
     KMSKeyArn |-> KmsArn,
     PCAArn |-> PcaArn]

\* cfn.create_stack as the service answers it; "cfn.create_stack:ca" is the
\* service refusing the creation of a CA stack only.
api_create_stack(W0, F, stack_name, cfg) ==
    LET W == Call(W0, "cfn.create_stack", stack_name) IN
    IF "cfn.create_stack" \in F
    THEN Ret(Hit(W, "cfn.create_stack"), Err(ClientErrorText))
    ELSE IF stack_name[3] \in {"ca", "rootca"} /\ "cfn.create_stack:ca" \in F
    THEN Ret(Hit(W, "cfn.create_stack:ca"), Err(ClientErrorText))
    ELSE IF stack_name \in DOMAIN W.stacks /\ W.stacks[stack_name].status # "DELETE_COMPLETE"
    THEN Ret(W, Err("already exists"))
    ELSE Ret([W EXCEPT !.stacks = (stack_name :> [status |-> "CREATE_IN_PROGRESS",
                                                  cfg |-> cfg, prev |-> None]) @@ @],
             Ok(None))

\* cfn.update_stack as the service answers it.
api_update_stack(W0, F, stack_name, cfg) ==
    LET W == Call(W0, "cfn.update_stack", stack_name) IN
    IF "cfn.update_stack" \in F
    THEN Ret(Hit(W, "cfn.update_stack"), Err(ClientErrorText))
    ELSE IF stack_name \notin DOMAIN W.stacks \/ W.stacks[stack_name].status = "DELETE_COMPLETE"
    THEN Ret(W, Err("does not exist"))
    ELSE IF W.stacks[stack_name].status \notin Updatable
    THEN Ret(W, Err("is in a state that can not be updated"))
    ELSE IF W.stacks[stack_name].cfg = cfg
    THEN Ret(W, Err("No updates are to be performed"))
    ELSE Ret([W EXCEPT !.stacks[stack_name] =
                    [status |-> "UPDATE_IN_PROGRESS", cfg |-> cfg, prev |-> @.cfg]],
             Ok(None))

\* The service refusing the deletion of the stacks of one kind only (the
\* third part of a stack name: init, rootca, ca, role, host).
DeleteFaultOf(stack_name) ==
    CASE stack_name[3] = "host" -> "cfn.delete_stack:host"
      [] stack_name[3] = "role" -> "cfn.delete_stack:role"
      [] stack_name[3] \in {"ca", "rootca"} -> "cfn.delete_stack:ca"
      [] stack_name[3] = "init" -> "cfn.delete_stack:init"
      [] OTHER -> "cfn.delete_stack"
KindDeleteFaults == {"cfn.delete_stack:host", "cfn.delete_stack:role",
                     "cfn.delete_stack:ca", "cfn.delete_stack:init"}

\* cfn.delete_stack as the service answers it: deleting a stack that is not
\* there is accepted and does nothing.
api_delete_stack(W0, F, stack_name) ==
    LET W == Call(W0, "cfn.delete_stack", stack_name) IN
    IF "cfn.delete_stack" \in F
    THEN Ret(Hit(W, "cfn.delete_stack"), Err(ClientErrorText))
    ELSE IF DeleteFaultOf(stack_name) \in F
    THEN Ret(Hit(W, DeleteFaultOf(stack_name)), Err(ClientErrorText))
    ELSE IF stack_name \notin DOMAIN W.stacks
            \/ W.stacks[stack_name].status \in {"DELETE_COMPLETE", "DELETE_IN_PROGRESS"}
    THEN Ret(W, Ok(None))
    ELSE Ret([W EXCEPT !.stacks[stack_name] =
                    [status |-> "DELETE_IN_PROGRESS", cfg |-> @.cfg, prev |-> @.cfg]],
             Ok(None))

\* Where the service takes an operation in progress: to completion, or, when
\* it fails, to the rolled-back or failed status.
Settled(stks, stack_name, fails) ==
    LET st == stks[stack_name] IN
    CASE st.status = "CREATE_IN_PROGRESS" ->
            [stks EXCEPT ![stack_name].status =
                IF fails THEN "ROLLBACK_COMPLETE" ELSE "CREATE_COMPLETE"]
      [] st.status = "UPDATE_IN_PROGRESS" ->
            IF fails
            THEN [stks EXCEPT ![stack_name] =
                    [status |-> "UPDATE_ROLLBACK_COMPLETE", cfg |-> st.prev, prev |-> None]]
            ELSE [stks EXCEPT ![stack_name] =
                    [status |-> "UPDATE_COMPLETE", cfg |-> st.cfg, prev |-> None]]
      [] st.status = "DELETE_IN_PROGRESS" ->
            IF fails
            THEN [stks EXCEPT ![stack_name].status = "DELETE_FAILED"]
            ELSE [n \in DOMAIN stks \ {stack_name} |-> stks[n]]
      [] OTHER -> stks

SettleFault(status) ==
    CASE status = "CREATE_IN_PROGRESS" -> "cfn.settle:create"
      [] status = "UPDATE_IN_PROGRESS" -> "cfn.settle:update"
      [] status = "DELETE_IN_PROGRESS" -> "cfn.settle:delete"
      [] OTHER -> "none"

\* The ways an operation in progress fails without a clean rollback: a
\* creation that stays failed, and a rollback that fails itself.
HardFaults(status) ==
    CASE status = "CREATE_IN_PROGRESS" -> {"cfn.settle:create_failed",
                                           "cfn.settle:rollback_failed"}
      [] status = "UPDATE_IN_PROGRESS" -> {"cfn.settle:update_rollback_failed"}
      [] OTHER -> {}

\* The status a failing operation ends in, by the way it fails.
FailureStatus(fault) ==
    CASE fault = "cfn.settle:create" -> "ROLLBACK_COMPLETE"
      [] fault = "cfn.settle:update" -> "UPDATE_ROLLBACK_COMPLETE"
      [] fault = "cfn.settle:delete" -> "DELETE_FAILED"
      [] fault = "cfn.settle:create_failed" -> "CREATE_FAILED"
      [] fault = "cfn.settle:rollback_failed" -> "ROLLBACK_FAILED"
      [] OTHER -> "UPDATE_ROLLBACK_FAILED"

\* The deletion of the init stack is what empties and deletes the bucket
\* (operations/infra.py delete_init, workflows/destroy.py step 4); whether
\* an object outlives it is the template's and the service's business: the
\* environment may leave the bucket as it is ("s3.bucket_kept").
DeletesBucket(stks, stack_name) ==
    stack_name[3] = "init" /\ stks[stack_name].status = "DELETE_IN_PROGRESS"

\* time.sleep(poll_interval) in wait_for_stack: the service works on the
\* stack meanwhile, unless the operation hangs.
sleep(W, F, stack_name) ==
    IF stack_name \notin DOMAIN W.stacks
    THEN W
    ELSE IF W.stacks[stack_name].status \notin InProgress
    THEN W
    ELSE IF "cfn.hang" \in F
    THEN Hit(W, "cfn.hang")
    ELSE IF SettleFault(W.stacks[stack_name].status) \in F
    THEN Hit([W EXCEPT !.stacks = Settled(@, stack_name, TRUE)],
             SettleFault(W.stacks[stack_name].status))
    ELSE IF HardFaults(W.stacks[stack_name].status) \cap F # {}
    THEN LET fault == CHOOSE f \in HardFaults(W.stacks[stack_name].status) \cap F : TRUE
         IN Hit([W EXCEPT !.stacks[stack_name].status = FailureStatus(fault)], fault)
    ELSE IF DeletesBucket(W.stacks, stack_name) /\ "s3.bucket_kept" \in F
    THEN Hit([W EXCEPT !.stacks = Settled(@, stack_name, FALSE)], "s3.bucket_kept")
    ELSE IF DeletesBucket(W.stacks, stack_name)
    THEN [W EXCEPT !.stacks = Settled(@, stack_name, FALSE), !.s3 = <<>>]
    ELSE [W EXCEPT !.stacks = Settled(@, stack_name, FALSE)]

-----------------------------------------------------------------------------
(* lib/cfn.py *)

\* deploy_stack, delete_stack, wait_for_stack: timeout_seconds: int = 600
DEFAULT_TIMEOUT == 600
\* wait_for_stack: poll_interval: int = 5
POLL_INTERVAL == 5

\* get_stack_status returning None
NoStatus == "None"

StackDeployError(stack_name, status, reason) ==
    [kind |-> "StackDeployError", stack_name |-> stack_name, status |-> status,
     reason |-> reason]
StackDeleteError(stack_name, status, reason) ==
    [kind |-> "StackDeleteError", stack_name |-> stack_name, status |-> status,
     reason |-> reason]

\* An existence test that also counts a deleted stack as existing.
stack_exists_any(W0, stack_name) ==
    LET W == Call(W0, "cfn.describe_stacks", stack_name) IN
    Ret(W, stack_name \in DOMAIN W.stacks)

\* stack_exists
stack_exists(W0, stack_name) ==
    LET W == Call(W0, "cfn.describe_stacks", stack_name) IN
    IF stack_name \notin DOMAIN W.stacks
    THEN Ret(W, FALSE)
    ELSE Ret(W, W.stacks[stack_name].status # "DELETE_COMPLETE")

\* get_stack_status
get_stack_status(W0, stack_name) ==
    LET W == Call(W0, "cfn.describe_stacks", stack_name) IN
    IF stack_name \notin DOMAIN W.stacks
    THEN Ret(W, NoStatus)
    ELSE Ret(W, W.stacks[stack_name].status)

\* get_stack_outputs: describe_stacks is not guarded here, its ClientError
\* propagates.
get_stack_outputs(W0, stack_name) ==
    LET W == Call(W0, "cfn.describe_stacks", stack_name) IN
    IF stack_name \notin DOMAIN W.stacks
    THEN Ret(W, Raised("ClientError"))
    ELSE Ret(W, OutputsOf(stack_name))

\* _get_stack_failure_reason with one text for every history it cannot use.
get_stack_failure_reason_unknown(W0, F, stack_name) ==
    LET W == Call(W0, "cfn.describe_stack_events", stack_name) IN
    IF "cfn.describe_stack_events" \in F
    THEN Ret(Hit(W, "cfn.describe_stack_events"), "Unknown failure reason")
    ELSE IF "cfn.no_failure_event" \in F
    THEN Ret(Hit(W, "cfn.no_failure_event"), "Unknown failure reason")
    ELSE Ret(W, "Resource handler returned message")

\* _get_stack_failure_reason
get_stack_failure_reason(W0, F, stack_name) ==
    LET W == Call(W0, "cfn.describe_stack_events", stack_name) IN
    IF "cfn.describe_stack_events" \in F
    THEN Ret(Hit(W, "cfn.describe_stack_events"), "Could not retrieve failure reason")
    ELSE IF "cfn.no_failure_event" \in F
    THEN Ret(Hit(W, "cfn.no_failure_event"), "Unknown failure reason")
    ELSE Ret(W, "Resource handler returned message")

\* The terminal failures without those of a failed creation or rollback.
failed_states_rolled_back == {"ROLLBACK_COMPLETE", "UPDATE_ROLLBACK_COMPLETE", "DELETE_FAILED"}

\* wait_for_stack: failed_states
failed_states == {"CREATE_FAILED", "ROLLBACK_COMPLETE", "ROLLBACK_FAILED",
                  "UPDATE_ROLLBACK_COMPLETE", "UPDATE_ROLLBACK_FAILED",
                  "DELETE_FAILED"}

\* The polls wait_for_stack still makes after one at time elapsed, when no
\* poll ends the loop: one per poll_interval while elapsed < timeout_seconds.
PollsLeft(timeout_seconds, poll_interval, elapsed) ==
    (timeout_seconds - elapsed - 1) \div poll_interval

\* n further polls that all see the status the last one saw.
Polled(W, stack_name, n) ==
    [W EXCEPT !.calls = @ \o [i \in 1..n |-> <<"cfn.describe_stacks", stack_name>>]]

\* wait_for_stack, from the loop test with the given value of elapsed on.
\* Once a sleep leaves the stack as it was, every later poll sees the same
\* status and the loop runs to its timeout: those polls are taken at once.
RECURSIVE wait_loop(_, _, _, _, _, _, _)
wait_loop(W0, F, stack_name, target_status, timeout_seconds, poll_interval, elapsed) ==
    IF ~(elapsed < timeout_seconds)
    THEN Ret(W0, Err(StackDeployError(stack_name, "TIMEOUT", "Did not reach target")))
    ELSE
      Bind(get_stack_status(W0, stack_name), LAMBDA st :
      IF target_status = "DELETE_COMPLETE" /\ st.r = NoStatus
      THEN Ret(st.w, Ok(None))
      ELSE IF st.r = target_status
      THEN Ret(st.w, Ok(None))
      ELSE IF st.r \in failed_states
      THEN Bind(get_stack_failure_reason(st.w, F, stack_name), LAMBDA reason :
           Ret(reason.w, Err(StackDeployError(stack_name, st.r, reason.r))))
      ELSE Bind(sleep(st.w, F, stack_name), LAMBDA slept :
           IF slept.stacks = st.w.stacks
           THEN Ret(Polled(slept, stack_name,
                           PollsLeft(timeout_seconds, poll_interval, elapsed)),
                    Err(StackDeployError(stack_name, "TIMEOUT", "Did not reach target")))
           ELSE wait_loop(slept, F, stack_name, target_status,
                          timeout_seconds, poll_interval, elapsed + poll_interval)))

\* A deploy that takes every ClientError of the update call as a failure.
is_no_updates_never(text) == FALSE

\* deploy_stack: "No updates are to be performed" in str(e)
is_no_updates(text) == text = "No updates are to be performed"

\* wait_for_stack with elapsed starting one interval early.
wait_for_stack_late(W, F, stack_name, target_status, timeout_seconds, poll_interval) ==
    wait_loop(W, F, stack_name, target_status, timeout_seconds, poll_interval,
              0 - poll_interval)

\* wait_for_stack
wait_for_stack(W, F, stack_name, target_status, timeout_seconds, poll_interval) ==
    wait_loop(W, F, stack_name, target_status, timeout_seconds, poll_interval, 0)

\* deploy_stack reporting success whatever the wait returned.
deploy_stack_optimistic(W0, F, stack_name, template_body, parameters, timeout_seconds) ==
    Bind(stack_exists(W0, stack_name), LAMBDA ex :
    Bind(IF ex.r
         THEN api_update_stack(ex.w, F, stack_name, Cfg(template_body, parameters))
         ELSE api_create_stack(ex.w, F, stack_name, Cfg(template_body, parameters)),
         LAMBDA api :
    LET target_status == IF ex.r THEN "UPDATE_COMPLETE" ELSE "CREATE_COMPLETE" IN
    IF IsErr(api.r)
    THEN IF is_no_updates(api.r.err)
         THEN Bind(get_stack_outputs(api.w, stack_name), LAMBDA outs :
              Ret(outs.w, IF IsRaised(outs.r) THEN outs.r ELSE Ok(outs.r)))
         ELSE Ret(api.w, Err(StackDeployError(stack_name, "FAILED", api.r.err)))
    ELSE
      Bind(wait_for_stack(api.w, F, stack_name, target_status,
                          timeout_seconds, POLL_INTERVAL),
           LAMBDA result :
      Bind(get_stack_outputs(result.w, stack_name), LAMBDA outs :
           Ret(outs.w, IF IsRaised(outs.r) THEN outs.r ELSE Ok(outs.r))))))

\* deploy_stack (tags and capabilities do not reach the result)
deploy_stack(W0, F, stack_name, template_body, parameters, timeout_seconds) ==
    Bind(stack_exists(W0, stack_name), LAMBDA ex :
    Bind(IF ex.r
         THEN api_update_stack(ex.w, F, stack_name, Cfg(template_body, parameters))
         ELSE api_create_stack(ex.w, F, stack_name, Cfg(template_body, parameters)),
         LAMBDA api :
    LET target_status == IF ex.r THEN "UPDATE_COMPLETE" ELSE "CREATE_COMPLETE" IN
    IF IsErr(api.r)
    THEN IF is_no_updates(api.r.err)
         THEN Bind(get_stack_outputs(api.w, stack_name), LAMBDA outs :
              Ret(outs.w, IF IsRaised(outs.r) THEN outs.r ELSE Ok(outs.r)))
         ELSE Ret(api.w, Err(StackDeployError(stack_name, "FAILED", api.r.err)))
    ELSE
      Bind(wait_for_stack(api.w, F, stack_name, target_status,
                          timeout_seconds, POLL_INTERVAL),
           LAMBDA result :
      IF IsOk(result.r)
      THEN Bind(get_stack_outputs(result.w, stack_name), LAMBDA outs :
           Ret(outs.w, IF IsRaised(outs.r) THEN outs.r ELSE Ok(outs.r)))
      ELSE Ret(result.w, Err(StackDeployError(stack_name, result.r.err.status,
                                              result.r.err.reason))))))

\* delete_stack
delete_stack(W0, F, stack_name, timeout_seconds) ==
    Bind(stack_exists(W0, stack_name), LAMBDA ex :
    IF ~ex.r
    THEN Ret(ex.w, Ok(None))
    ELSE
      Bind(api_delete_stack(ex.w, F, stack_name), LAMBDA api :
      IF IsErr(api.r)
      THEN Ret(api.w, Err(StackDeleteError(stack_name, "DELETE_FAILED", api.r.err)))
      ELSE
        Bind(wait_for_stack(api.w, F, stack_name, "DELETE_COMPLETE",
                            timeout_seconds, POLL_INTERVAL),
             LAMBDA result :
        IF IsOk(result.r)
        THEN Ret(result.w, Ok(None))
        ELSE Ret(result.w, Err(StackDeleteError(stack_name, result.r.err.status,
                                                result.r.err.reason))))))

-----------------------------------------------------------------------------
(* lib/storage/s3.py: one bucket, objects by key *)

\* read_object
read_object(W0, F, key) ==
    LET W == Call(W0, "s3.get_object", key) IN
    IF "s3.get_object" \in F
    THEN Ret(Hit(W, "s3.get_object"), Err([kind |-> "S3ReadError", key |-> key,
                                           reason |-> ClientErrorText]))
    ELSE IF key \notin DOMAIN W.s3
    THEN Ret(W, Err([kind |-> "S3ReadError", key |-> key, reason |-> "Object not found"]))
    ELSE Ret(W, Ok(decode(W.s3[key])))

\* write_object
write_object(W0, F, key, data) ==
    LET W == Call(W0, "s3.put_object", key) IN
    IF "s3.put_object" \in F
    THEN Ret(Hit(W, "s3.put_object"), Err([kind |-> "S3WriteError", key |-> key,
                                           reason |-> ClientErrorText]))
    ELSE Ret([W EXCEPT !.s3 = (key :> encode(data)) @@ @], Ok(None))

\* delete_object
delete_object(W0, F, key) ==
    LET W == Call(W0, "s3.delete_object", key) IN
    IF "s3.delete_object" \in F
    THEN Ret(Hit(W, "s3.delete_object"), Err([kind |-> "S3WriteError", key |-> key,
                                              reason |-> ClientErrorText]))
    ELSE Ret([W EXCEPT !.s3 = [k \in DOMAIN @ \ {key} |-> @[k]]], Ok(None))

\* object_exists: any ClientError of head_object reads as "not there"
object_exists(W0, F, key) ==
    LET W == Call(W0, "s3.head_object", key) IN
    IF "s3.head_object" \in F
    THEN Ret(Hit(W, "s3.head_object"), FALSE)
    ELSE Ret(W, key \in DOMAIN W.s3)

-----------------------------------------------------------------------------
(* lib/crypto.py and local key files *)

\* crypto.generate_ca: the certificate and key of a new CA
CACertPem(scope) == [pem |-> "ca-certificate", scope |-> scope]
CAKeyPem(scope) == [pem |-> "ca-private-key", scope |-> scope]

\* crypto.generate_host_cert
HostCertPem(hostname, ca_cert_pem) ==
    [pem |-> "host-certificate", hostname |-> hostname, issuer |-> ca_cert_pem]
HostKeyPem(hostname) == [pem |-> "host-private-key", hostname |-> hostname]

\* Path.write_text / Path.unlink on a local key file
write_text(W, path, text) == [W EXCEPT !.files = (path :> text) @@ @]
unlink(W, path) == [W EXCEPT !.files = [q \in DOMAIN @ \ {path} |-> @[q]]]

-----------------------------------------------------------------------------
(* operations/ *)

\* operations/role.py create_role
create_role_op(W0, F, namespace, name, policies, trust_anchor_arn, scope) ==
    LET stack_name == role_stack_name(namespace, name) IN
    Bind(deploy_stack(W0, F, stack_name, "role.yaml",
                      [Namespace |-> namespace, RoleName |-> name,
                       TrustAnchorArn |-> trust_anchor_arn,
                       PolicyArns |-> policies],
                      DEFAULT_TIMEOUT),
         LAMBDA dep :
    IF IsErr(dep.r) \/ IsRaised(dep.r)
    THEN dep
    ELSE Ret(dep.w, Ok([stack_name |-> stack_name,
                        role_arn |-> dep.r.ok.RoleArn,
                        profile_arn |-> dep.r.ok.ProfileArn,
                        policies |-> policies])))

\* operations/role.py delete_role
delete_role_op(W, F, stack_name) == delete_stack(W, F, stack_name, DEFAULT_TIMEOUT)

\* operations/ca.py delete_ca
delete_ca_op(W, F, stack_name) == delete_stack(W, F, stack_name, DEFAULT_TIMEOUT)

\* create_self_signed_ca writing the key file and deploying the stack
\* whatever became of the upload.
create_self_signed_ca_eager(W0, F, namespace, scope) ==
    LET stack_name == ca_stack_name(namespace, scope)
        cert_s3_key == ca_cert_s3_key(namespace, scope)
        local_key_path == ca_key_local_path(namespace, scope)
    IN
    Bind(write_object(W0, F, cert_s3_key, CACertPem(scope)), LAMBDA up :
      LET W1 == write_text(up.w, local_key_path, CAKeyPem(scope)) IN
      Bind(deploy_stack(W1, F, stack_name, "rootca-self-signed.yaml",
                        [Namespace |-> namespace, CACertificateS3Key |-> cert_s3_key],
                        DEFAULT_TIMEOUT),
           LAMBDA dep :
      IF IsErr(up.r)
      THEN Ret(dep.w, up.r)
      ELSE IF IsErr(dep.r) \/ IsRaised(dep.r)
      THEN dep
      ELSE Ret(dep.w, Ok([stack_name |-> stack_name,
                          trust_anchor_arn |-> dep.r.ok.TrustAnchorArn]))))

\* operations/ca.py create_self_signed_ca, with the scope its callers pass
create_self_signed_ca(W0, F, namespace, scope) ==
    LET stack_name == ca_stack_name(namespace, scope)
        cert_s3_key == ca_cert_s3_key(namespace, scope)
        local_key_path == ca_key_local_path(namespace, scope)
    IN
    Bind(write_object(W0, F, cert_s3_key, CACertPem(scope)), LAMBDA up :
    IF IsErr(up.r)
    THEN up
    ELSE
      LET W1 == write_text(up.w, local_key_path, CAKeyPem(scope)) IN
      Bind(deploy_stack(W1, F, stack_name, "rootca-self-signed.yaml",
                        [Namespace |-> namespace, CACertificateS3Key |-> cert_s3_key],
                        DEFAULT_TIMEOUT),
           LAMBDA dep :
      IF IsErr(dep.r) \/ IsRaised(dep.r)
      THEN dep
      ELSE Ret(dep.w, Ok([stack_name |-> stack_name,
                          trust_anchor_arn |-> dep.r.ok.TrustAnchorArn]))))

\* operations/ca.py create_pca_ca: the rootca stack from the pca-new template
create_pca_ca(W, F, namespace) ==
    Bind(deploy_stack(W, F, rootca_stack_name(namespace), "rootca-pca-new.yaml",
                      [Namespace |-> namespace, KeyAlgorithm |-> "EC_prime256v1",
                       ValidityYears |-> "10"],
                      DEFAULT_TIMEOUT),
         LAMBDA dep :
    IF IsErr(dep.r) \/ IsRaised(dep.r)
    THEN dep
    ELSE Ret(dep.w, Ok([stack_name |-> rootca_stack_name(namespace),
                        trust_anchor_arn |-> dep.r.ok.TrustAnchorArn,
                        pca_arn |-> dep.r.ok.PCAArn])))

\* operations/ca.py attach_existing_pca
attach_existing_pca(W, F, namespace, pca_arn) ==
    Bind(deploy_stack(W, F, rootca_stack_name(namespace), "rootca-pca-existing.yaml",
                      [Namespace |-> namespace, PCAArn |-> pca_arn],
                      DEFAULT_TIMEOUT),
         LAMBDA dep :
    IF IsErr(dep.r) \/ IsRaised(dep.r)
    THEN dep
    ELSE Ret(dep.w, Ok([stack_name |-> rootca_stack_name(namespace),
                        trust_anchor_arn |-> dep.r.ok.TrustAnchorArn,
                        pca_arn |-> dep.r.ok.PCAArn])))

\* operations/infra.py deploy_init
deploy_init(W, F, namespace) ==
    Bind(deploy_stack(W, F, init_stack_name(namespace), "init.yaml",
                      [Namespace |-> namespace], DEFAULT_TIMEOUT),
         LAMBDA dep :
    IF IsErr(dep.r) \/ IsRaised(dep.r)
    THEN dep
    ELSE Ret(dep.w, Ok([stack_name |-> init_stack_name(namespace),
                        bucket_name |-> dep.r.ok.BucketName,
                        bucket_arn |-> dep.r.ok.BucketArn,
                        kms_key_arn |-> dep.r.ok.KMSKeyArn])))

\* operations/infra.py delete_init
delete_init(W, F, namespace) ==
    delete_stack(W, F, init_stack_name(namespace), DEFAULT_TIMEOUT)

\* operations/host.py _ca_cert_s3_key, _ca_key_local_path
host_ca_cert_s3_key(namespace) == <<namespace, "ca", "certificate.pem">>
host_ca_key_local_path(namespace) == <<"data_dir", namespace, "ca-private-key.pem">>

\* operations/host.py onboard_host_self_signed
onboard_host_self_signed(W0, F, namespace, hostname) ==
    LET stack_name == host_stack_name(namespace, hostname)
        cert_s3_key == host_cert_s3_key(namespace, hostname)
        key_s3_key == host_key_s3_key(namespace, hostname)
        ca_cert_key == host_ca_cert_s3_key(namespace)
        ca_key_path == host_ca_key_local_path(namespace)
    IN
    Bind(read_object(W0, F, ca_cert_key), LAMBDA rd :
    IF IsErr(rd.r)
    THEN Ret(rd.w, Err([kind |-> "CACertNotFoundError", key |-> ca_cert_key]))
    ELSE IF ca_key_path \notin DOMAIN rd.w.files
    THEN Ret(rd.w, Err([kind |-> "CAKeyNotFoundError", expected_path |-> ca_key_path]))
    ELSE
      Bind(write_object(rd.w, F, cert_s3_key, HostCertPem(hostname, rd.r.ok)), LAMBDA w1 :
      IF IsErr(w1.r)
      THEN w1
      ELSE
        Bind(write_object(w1.w, F, key_s3_key, HostKeyPem(hostname)), LAMBDA w2 :
        IF IsErr(w2.r)
        THEN w2
        ELSE
          Bind(deploy_stack(w2.w, F, stack_name, "host.yaml",
                            [Namespace |-> namespace, Hostname |-> hostname,
                             CertificateS3Key |-> cert_s3_key,
                             PrivateKeyS3Key |-> key_s3_key],
                            DEFAULT_TIMEOUT),
               LAMBDA dep :
          IF IsErr(dep.r) \/ IsRaised(dep.r)
          THEN dep
          ELSE Ret(dep.w, Ok([stack_name |-> stack_name, hostname |-> hostname,
                              certificate_secret_arn |-> dep.r.ok.CertificateSecretArn,
                              private_key_secret_arn |-> dep.r.ok.PrivateKeySecretArn]))))))

\* operations/host.py onboard_host_pca
onboard_host_pca(W, F, namespace, hostname) ==
    Ret(W, Err(StackDeployError(<<>>, "NOT_IMPLEMENTED",
                                "PCA certificate issuance not yet implemented")))

\* offboard_host returning the error of a failed delete_object.
offboard_host_op_strict(W0, F, stack_name, namespace, hostname) ==
    Bind(delete_stack(W0, F, stack_name, DEFAULT_TIMEOUT), LAMBDA del :
    IF IsErr(del.r)
    THEN del
    ELSE
      Bind(delete_object(del.w, F, host_cert_s3_key(namespace, hostname)), LAMBDA d1 :
      IF IsErr(d1.r) THEN d1 ELSE
      Bind(delete_object(d1.w, F, host_key_s3_key(namespace, hostname)), LAMBDA d2 :
      IF IsErr(d2.r) THEN d2 ELSE Ret(d2.w, Ok(None)))))

\* operations/host.py offboard_host: the two delete_object results are dropped
offboard_host_op(W0, F, stack_name, namespace, hostname) ==
    Bind(delete_stack(W0, F, stack_name, DEFAULT_TIMEOUT), LAMBDA del :
    IF IsErr(del.r)
    THEN del
    ELSE
      Bind(delete_object(del.w, F, host_cert_s3_key(namespace, hostname)), LAMBDA d1 :
      Bind(delete_object(d1.w, F, host_key_s3_key(namespace, hostname)), LAMBDA d2 :
      Ret(d2.w, Ok(None)))))

\* operations/secrets.py create_secrets_file: reading the two secrets and
\* running sops either works or fails as a whole.  The call is logged with
\* the values written into the file.
create_secrets_file(W0, F, hostname, trust_anchor_arn, profile_arn, role_arn) ==
    LET W == Call(W0, "sops", [hostname |-> hostname,
                               trust_anchor_arn |-> trust_anchor_arn,
                               profile_arn |-> profile_arn,
                               role_arn |-> role_arn])
    IN
    IF "sops" \in F
    THEN Ret(Hit(W, "sops"), Err([kind |-> "SOPSEncryptError", reason |-> "sops failed"]))
    ELSE Ret(W, Ok([encrypted |-> TRUE]))

-----------------------------------------------------------------------------
(* workflows/ *)

NotInitializedError(namespace) == [kind |-> "NotInitializedError", namespace |-> namespace]

\* The opening every workflow shares: load the state, refuse a namespace
\* that has none or whose state has no init.  An exception load raises is
\* not caught.
load_initialized(W, F, namespace, skip_cache) ==
    Bind(load(W, F, namespace, skip_cache), LAMBDA ld :
    IF IsRaised(ld.r) \/ IsErr(ld.r)
    THEN ld
    ELSE IF ld.r.ok = None
    THEN Ret(ld.w, Err(NotInitializedError(namespace)))
    ELSE IF ~is_initialized(ld.r.ok)
    THEN Ret(ld.w, Err(NotInitializedError(namespace)))
    ELSE ld)

Remove(d, key) == [k \in DOMAIN d \ {key} |-> d[k]]

\* workflows/role.py create_role.  The call of the operation (line 61) names
\* no trust_anchor_arn, which operations/role.py create_role requires as a
\* keyword-only parameter without default: Python raises TypeError when it
\* binds the arguments, before the operation's body runs.  Lines 64-83 are
\* never reached.
create_role(W0, F, namespace, name, policies) ==
    Bind(load_initialized(W0, F, namespace, FALSE), LAMBDA ld :
    IF ~IsOk(ld.r) THEN ld ELSE Ret(ld.w, Raised("TypeError")))

\* delete_role without the check for hosts that use the role.
delete_role_unguarded(W0, F, namespace, name, force) ==
    Bind(load_initialized(W0, F, namespace, FALSE), LAMBDA ld :
    IF ~IsOk(ld.r) THEN ld ELSE
    LET state == ld.r.ok IN
    IF name \notin DOMAIN state.roles
    THEN Ret(ld.w, Err([kind |-> "RoleNotFoundError", role_name |-> name]))
    ELSE
      Bind(delete_role_op(ld.w, F, state.roles[name].stack_name), LAMBDA op :
      IF IsErr(op.r) THEN op ELSE
      Bind(save(op.w, F, [state EXCEPT !.roles = Remove(@, name)]), LAMBDA sv :
      IF IsErr(sv.r) THEN sv ELSE Ret(sv.w, Ok(None)))))

\* workflows/role.py delete_role
delete_role(W0, F, namespace, name, force) ==
    Bind(load_initialized(W0, F, namespace, FALSE), LAMBDA ld :
    IF ~IsOk(ld.r) THEN ld ELSE
    LET state == ld.r.ok
        hosts_using == {h \in DOMAIN state.hosts : state.hosts[h].role_name = name}
    IN
    IF name \notin DOMAIN state.roles
    THEN Ret(ld.w, Err([kind |-> "RoleNotFoundError", role_name |-> name]))
    ELSE IF ~force /\ hosts_using # {}
    THEN Ret(ld.w, Err([kind |-> "RoleInUseError", role_name |-> name,
                        hosts |-> hosts_using]))
    ELSE
      Bind(delete_role_op(ld.w, F, state.roles[name].stack_name), LAMBDA op :
      IF IsErr(op.r) THEN op ELSE
      Bind(save(op.w, F, [state EXCEPT !.roles = Remove(@, name)]), LAMBDA sv :
      IF IsErr(sv.r) THEN sv ELSE Ret(sv.w, Ok(None)))))

\* onboard saving the state only after the secrets file is written.
onboard_save_last(W0, F, namespace, hostname, role_name, create_sops, overwrite) ==
    Bind(load_initialized(W0, F, namespace, FALSE), LAMBDA ld :
    IF ~IsOk(ld.r) THEN ld ELSE
    LET state == ld.r.ok IN
    IF state_ca(state) = None
    THEN Ret(ld.w, Raised("AssertionError"))
    ELSE IF role_name \notin DOMAIN state.roles
    THEN Ret(ld.w, Err([kind |-> "RoleNotFoundError", role_name |-> role_name]))
    ELSE IF hostname \in DOMAIN state.hosts /\ ~overwrite
    THEN Ret(ld.w, Err([kind |-> "HostAlreadyExistsError", hostname |-> hostname]))
    ELSE
      Bind(IF state_ca(state).mode = "self-signed"
           THEN onboard_host_self_signed(ld.w, F, namespace, hostname)
           ELSE IF state_ca(state).pca_arn = None
           THEN Ret(ld.w, Raised("AssertionError"))
           ELSE onboard_host_pca(ld.w, F, namespace, hostname),
           LAMBDA op :
      IF ~IsOk(op.r) THEN op ELSE
      LET new_host == [stack_name |-> op.r.ok.stack_name,
                       hostname |-> hostname,
                       role_name |-> role_name,
                       certificate_secret_arn |-> op.r.ok.certificate_secret_arn,
                       private_key_secret_arn |-> op.r.ok.private_key_secret_arn]
      IN
      Bind(IF create_sops
           THEN create_secrets_file(op.w, F, hostname,
                                    state_ca(state).trust_anchor_arn,
                                    state.roles[role_name].profile_arn,
                                    state.roles[role_name].role_arn)
           ELSE Ret(op.w, Ok(None)),
           LAMBDA sec :
      IF IsErr(sec.r) THEN sec ELSE
      Bind(save(sec.w, F, [state EXCEPT !.hosts = (hostname :> new_host) @@ @]), LAMBDA sv :
      IF IsErr(sv.r) THEN sv
      ELSE Ret(sv.w, Ok([host |-> new_host, secrets_file |-> sec.r.ok]))))))

\* workflows/host.py onboard
onboard(W0, F, namespace, hostname, role_name, create_sops, overwrite) ==
    Bind(load_initialized(W0, F, namespace, FALSE), LAMBDA ld :
    IF ~IsOk(ld.r) THEN ld ELSE
    LET state == ld.r.ok IN
    IF state_ca(state) = None
    THEN Ret(ld.w, Raised("AssertionError"))
    ELSE IF role_name \notin DOMAIN state.roles
    THEN Ret(ld.w, Err([kind |-> "RoleNotFoundError", role_name |-> role_name]))
    ELSE IF hostname \in DOMAIN state.hosts /\ ~overwrite
    THEN Ret(ld.w, Err([kind |-> "HostAlreadyExistsError", hostname |-> hostname]))
    ELSE
      Bind(IF state_ca(state).mode = "self-signed"
           THEN onboard_host_self_signed(ld.w, F, namespace, hostname)
           ELSE IF state_ca(state).pca_arn = None
           THEN Ret(ld.w, Raised("AssertionError"))
           ELSE onboard_host_pca(ld.w, F, namespace, hostname),
           LAMBDA op :
      IF ~IsOk(op.r) THEN op ELSE
      LET new_host == [stack_name |-> op.r.ok.stack_name,
                       hostname |-> hostname,
                       role_name |-> role_name,
                       certificate_secret_arn |-> op.r.ok.certificate_secret_arn,
                       private_key_secret_arn |-> op.r.ok.private_key_secret_arn]
      IN
      Bind(save(op.w, F, [state EXCEPT !.hosts = (hostname :> new_host) @@ @]), LAMBDA sv :
      IF IsErr(sv.r) THEN sv
      ELSE IF ~create_sops THEN Ret(sv.w, Ok([host |-> new_host, secrets_file |-> None]))
      ELSE
        Bind(create_secrets_file(sv.w, F, hostname,
                                 state_ca(state).trust_anchor_arn,
                                 state.roles[role_name].profile_arn,
                                 state.roles[role_name].role_arn),
             LAMBDA sec :
        IF IsErr(sec.r) THEN sec
        ELSE Ret(sec.w, Ok([host |-> new_host, secrets_file |-> sec.r.ok]))))))

\* workflows/host.py offboard
offboard(W0, F, namespace, hostname) ==
    Bind(load_initialized(W0, F, namespace, FALSE), LAMBDA ld :
    IF ~IsOk(ld.r) THEN ld ELSE
    LET state == ld.r.ok IN
    IF hostname \notin DOMAIN state.hosts
    THEN Ret(ld.w, Err([kind |-> "HostNotFoundError", hostname |-> hostname]))
    ELSE
      Bind(offboard_host_op(ld.w, F, state.hosts[hostname].stack_name,
                            namespace, hostname),
           LAMBDA op :
      IF IsErr(op.r) THEN op ELSE
      Bind(save(op.w, F, [state EXCEPT !.hosts = Remove(@, hostname)]), LAMBDA sv :
      IF IsErr(sv.r) THEN sv ELSE Ret(sv.w, Ok(None)))))

\* setup_ca without the check that the scope is not there yet.
setup_ca_overwrite(W0, F, namespace, scope) ==
    Bind(load_initialized(W0, F, namespace, FALSE), LAMBDA ld :
    IF ~IsOk(ld.r) THEN ld ELSE
    LET state == ld.r.ok IN
      Bind(create_self_signed_ca(ld.w, F, namespace, scope), LAMBDA op :
      IF ~IsOk(op.r) THEN op ELSE
      LET ca == [stack_name |-> op.r.ok.stack_name, mode |-> "self-signed",
                 trust_anchor_arn |-> op.r.ok.trust_anchor_arn, pca_arn |-> None]
      IN
      Bind(save(op.w, F, [state EXCEPT !.cas = (scope :> ca) @@ @]), LAMBDA sv :
      IF IsErr(sv.r) THEN sv ELSE Ret(sv.w, Ok(ca)))))

\* workflows/ca.py setup_ca
setup_ca(W0, F, namespace, scope) ==
    Bind(load_initialized(W0, F, namespace, FALSE), LAMBDA ld :
    IF ~IsOk(ld.r) THEN ld ELSE
    LET state == ld.r.ok IN
    IF scope \in DOMAIN state.cas
    THEN Ret(ld.w, Err([kind |-> "CAScopeAlreadyExistsError", scope |-> scope]))
    ELSE
      Bind(create_self_signed_ca(ld.w, F, namespace, scope), LAMBDA op :
      IF ~IsOk(op.r) THEN op ELSE
      LET ca == [stack_name |-> op.r.ok.stack_name, mode |-> "self-signed",
                 trust_anchor_arn |-> op.r.ok.trust_anchor_arn, pca_arn |-> None]
      IN
      Bind(save(op.w, F, [state EXCEPT !.cas = (scope :> ca) @@ @]), LAMBDA sv :
      IF IsErr(sv.r) THEN sv ELSE Ret(sv.w, Ok(ca)))))

\* delete_scope that removes the scope's key file as well.
delete_scope_purge(W0, F, namespace, scope) ==
    Bind(load_initialized(W0, F, namespace, FALSE), LAMBDA ld :
    IF ~IsOk(ld.r) THEN ld ELSE
    LET state == ld.r.ok IN
    IF scope \notin DOMAIN state.cas
    THEN Ret(ld.w, Err([kind |-> "CAScopeNotFoundError", scope |-> scope]))
    ELSE
      Bind(delete_ca_op(ld.w, F, state.cas[scope].stack_name), LAMBDA op :
      IF IsErr(op.r) THEN op ELSE
      Bind(save(unlink(op.w, ca_key_local_path(namespace, scope)), F,
                [state EXCEPT !.cas = Remove(@, scope)]), LAMBDA sv :
      IF IsErr(sv.r) THEN sv ELSE Ret(sv.w, Ok(None)))))

\* workflows/ca.py delete_scope
delete_scope(W0, F, namespace, scope) ==
    Bind(load_initialized(W0, F, namespace, FALSE), LAMBDA ld :
    IF ~IsOk(ld.r) THEN ld ELSE
    LET state == ld.r.ok IN
    IF scope \notin DOMAIN state.cas
    THEN Ret(ld.w, Err([kind |-> "CAScopeNotFoundError", scope |-> scope]))
    ELSE
      Bind(delete_ca_op(ld.w, F, state.cas[scope].stack_name), LAMBDA op :
      IF IsErr(op.r) THEN op ELSE
      Bind(save(op.w, F, [state EXCEPT !.cas = Remove(@, scope)]), LAMBDA sv :
      IF IsErr(sv.r) THEN sv ELSE Ret(sv.w, Ok(None)))))

-----------------------------------------------------------------------------
(* workflows/init.py, workflows/destroy.py *)

\* The order in which a dict of the state is iterated.
RECURSIVE Ordered(_)
Ordered(S) ==
    IF S = {} THEN <<>>
    ELSE LET x == CHOOSE y \in S : TRUE IN <<x>> \o Ordered(S \ {x})

\* iam_ra_cli.__version__
package_version == "2.0.0"

\* init, from "Build initial state" on, with the state saved right after
\* the bootstrap stack is deployed.
init_ca_save_early(W0, F, namespace, ca_mode, pca_arn, init_result) ==
    LET new_state == MkState(package_version,
                             [stack_name |-> init_result.stack_name,
                              bucket_arn |-> init_result.bucket_arn,
                              kms_key_arn |-> init_result.kms_key_arn],
                             <<>>, <<>>, <<>>)
    IN
    Bind(save(W0, F, new_state), LAMBDA sv :
    IF IsErr(sv.r) THEN sv ELSE
    Bind(CASE ca_mode = "self-signed" -> create_self_signed_ca(sv.w, F, namespace, "default")
           [] ca_mode = "pca-new" -> create_pca_ca(sv.w, F, namespace)
           [] OTHER ->
                IF pca_arn = None
                THEN Ret(sv.w, Err(StackDeployError(<<>>, "INVALID_CONFIG",
                                       "pca_arn required for PCA_EXISTING mode")))
                ELSE attach_existing_pca(sv.w, F, namespace, pca_arn),
         LAMBDA ca :
    IF ~IsOk(ca.r) THEN ca ELSE Ret(ca.w, Raised("AttributeError"))))

\* workflows/init.py init, from "Build initial state" (line 51) on.  State
\* declares ca as a property without a setter (models/__init__.py lines
\* 163-166), so each of the assignments new_state.ca = CA(...) (lines 75,
\* 86, 102) raises AttributeError: the save of line 110 is never reached.
init_ca(W0, F, namespace, ca_mode, pca_arn, init_result) ==
    Bind(CASE ca_mode = "self-signed" -> create_self_signed_ca(W0, F, namespace, "default")
           [] ca_mode = "pca-new" -> create_pca_ca(W0, F, namespace)
           [] OTHER ->
                IF pca_arn = None
                THEN Ret(W0, Err(StackDeployError(<<>>, "INVALID_CONFIG",
                                      "pca_arn required for PCA_EXISTING mode")))
                ELSE attach_existing_pca(W0, F, namespace, pca_arn),
         LAMBDA ca :
    IF ~IsOk(ca.r) THEN ca ELSE Ret(ca.w, Raised("AttributeError")))

\* workflows/init.py init
init(W0, F, namespace, ca_mode, pca_arn) ==
    Bind(deploy_init(W0, F, namespace), LAMBDA dep :
    IF ~IsOk(dep.r) THEN dep
    ELSE init_ca(dep.w, F, namespace, ca_mode, pca_arn, dep.r.ok))

\* workflows/destroy.py destroy, step 1: the loop over state.hosts, from
\* the hosts still to visit
RECURSIVE destroy_hosts(_, _, _, _, _)
destroy_hosts(W, F, namespace, state, hostnames) ==
    IF hostnames = <<>>
    THEN Ret(W, Ok(None))
    ELSE
      Bind(offboard_host_op(W, F, state.hosts[Head(hostnames)].stack_name,
                            namespace, Head(hostnames)),
           LAMBDA op :
      IF IsErr(op.r) THEN op
      ELSE destroy_hosts(op.w, F, namespace, state, Tail(hostnames)))

\* destroy, step 2: the loop over state.roles, from the roles still to visit
RECURSIVE destroy_roles(_, _, _, _)
destroy_roles(W, F, state, names) ==
    IF names = <<>>
    THEN Ret(W, Ok(None))
    ELSE
      Bind(delete_role_op(W, F, state.roles[Head(names)].stack_name), LAMBDA op :
      IF IsErr(op.r) THEN op
      ELSE destroy_roles(op.w, F, state, Tail(names)))

\* destroy, step 3: state.ca is cas.get("default")
destroy_ca(W, F, state) ==
    IF state_ca(state) = None
    THEN Ret(W, Ok(None))
    ELSE delete_ca_op(W, F, state_ca(state).stack_name)

\* workflows/destroy.py destroy
destroy(W0, F, namespace) ==
    Bind(load_initialized(W0, F, namespace, FALSE), LAMBDA ld :
    IF ~IsOk(ld.r) THEN ld ELSE
    Bind(destroy_hosts(ld.w, F, namespace, ld.r.ok, Ordered(DOMAIN ld.r.ok.hosts)),
         LAMBDA hosts :
    IF IsErr(hosts.r) THEN hosts ELSE
    Bind(destroy_roles(hosts.w, F, ld.r.ok, Ordered(DOMAIN ld.r.ok.roles)), LAMBDA roles :
    IF IsErr(roles.r) THEN roles ELSE
    Bind(destroy_ca(roles.w, F, ld.r.ok), LAMBDA ca :
    IF IsErr(ca.r) THEN ca ELSE
    Bind(delete_init(ca.w, F, namespace), LAMBDA di :
    IF IsErr(di.r) THEN di
    ELSE Ret(invalidate_cache(di.w, namespace), Ok(None)))))))

-----------------------------------------------------------------------------
(* workflows/migrate.py *)

STATE_VERSION_V2 == "2.0.0"

\* update_role_stack
update_role_stack(W, F, namespace, name, trust_anchor_arn, policies, scope) ==
    Bind(create_role_op(W, F, namespace, name, policies, trust_anchor_arn, scope), LAMBDA op :
    IF ~IsOk(op.r) THEN op ELSE Ret(op.w, Ok(None)))

\* migrate_ca_stack
migrate_ca_stack(W0, F, namespace, scope, old_stack_name) ==
    LET new_stack_name == ca_stack_name(namespace, scope)
        cert_s3_key == ca_cert_s3_key(namespace, scope)
    IN
    Bind(deploy_stack(W0, F, new_stack_name, "rootca-self-signed.yaml",
                      [Namespace |-> namespace, Scope |-> scope,
                       CACertificateS3Key |-> cert_s3_key],
                      DEFAULT_TIMEOUT),
         LAMBDA dep :
    IF ~IsOk(dep.r) THEN dep ELSE
    Bind(delete_stack(dep.w, F, old_stack_name, DEFAULT_TIMEOUT), LAMBDA del :
    IF IsErr(del.r) THEN del ELSE Ret(del.w, Ok(dep.r.ok.TrustAnchorArn))))

\* migrate, step 2: the certificate object.  The result of delete_object is
\* not looked at.
migrate_s3_cert(W0, F, namespace) ==
    LET old_s3_key == old_ca_cert_s3_key(namespace)
        new_s3_key == ca_cert_s3_key(namespace, "default")
    IN
    Bind(object_exists(W0, F, old_s3_key), LAMBDA ex :
    IF ~ex.r THEN Ret(ex.w, Ok(FALSE)) ELSE
    Bind(read_object(ex.w, F, old_s3_key), LAMBDA rd :
    IF IsErr(rd.r)
    THEN Ret(rd.w, Err(StateSaveError(namespace, "Failed to read old CA cert")))
    ELSE
      Bind(write_object(rd.w, F, new_s3_key, rd.r.ok), LAMBDA wr :
      IF IsErr(wr.r)
      THEN Ret(wr.w, Err(StateSaveError(namespace, "Failed to write scoped CA cert")))
      ELSE Ret(delete_object(wr.w, F, old_s3_key).w, Ok(TRUE)))))

\* migrate, step 3: the local key file
migrate_local_key(W, namespace) ==
    LET old_key_path == old_ca_key_local_path(namespace)
        new_key_path == ca_key_local_path(namespace, "default")
    IN
    IF old_key_path \notin DOMAIN W.files
    THEN Ret(W, FALSE)
    ELSE Ret(unlink(write_text(W, new_key_path, W.files[old_key_path]), old_key_path),
             TRUE)

\* migrate, step 4: the loop over state.cas, from the scopes still to visit
RECURSIVE migrate_cas(_, _, _, _, _, _)
migrate_cas(W, F, namespace, state, scopes, migrated) ==
    IF scopes = <<>>
    THEN Ret(W, Ok([state |-> state, ca_stack_migrated |-> migrated]))
    ELSE
      LET scope == Head(scopes)
          ca == state.cas[scope]
          expected_v2_name == ca_stack_name(namespace, scope)
      IN
      IF ca.stack_name = expected_v2_name
      THEN migrate_cas(W, F, namespace, state, Tail(scopes), migrated)
      ELSE
        Bind(migrate_ca_stack(W, F, namespace, scope, ca.stack_name), LAMBDA mig :
        IF ~IsOk(mig.r) THEN mig ELSE
        migrate_cas(mig.w, F, namespace,
                    [state EXCEPT !.cas[scope] =
                        [stack_name |-> expected_v2_name, mode |-> ca.mode,
                         trust_anchor_arn |-> mig.r.ok, pca_arn |-> ca.pca_arn]],
                    Tail(scopes), TRUE))

\* migrate, step 5: the loop over state.roles, from the roles still to visit
RECURSIVE migrate_roles(_, _, _, _, _, _)

\* A step 5 that updates no role stack.
migrate_roles_skipped(W, F, namespace, state, names, roles_updated) ==
    Ret(W, Ok(roles_updated))

migrate_roles(W, F, namespace, state, names, roles_updated) ==
    IF names = <<>>
    THEN Ret(W, Ok(roles_updated))
    ELSE
      LET role_name == Head(names)
          role == state.roles[role_name]
      IN
      IF role.scope \notin DOMAIN state.cas
      THEN migrate_roles(W, F, namespace, state, Tail(names), roles_updated)
      ELSE
        Bind(update_role_stack(W, F, namespace, role_name,
                               state.cas[role.scope].trust_anchor_arn,
                               role.policies, role.scope),
             LAMBDA up :
        IF ~IsOk(up.r) THEN up ELSE
        migrate_roles(up.w, F, namespace, state, Tail(names),
                      Append(roles_updated, role_name)))

\* A migrate that saves the state it has reached when a role stack update
\* fails, before it returns the error.
migrate_save_on_failure(W0, F, namespace) ==
    Bind(load_initialized(W0, F, namespace, TRUE), LAMBDA ld :
    IF ~IsOk(ld.r) THEN ld ELSE
    Bind(migrate_s3_cert(ld.w, F, namespace), LAMBDA cert :
    IF IsErr(cert.r) THEN cert ELSE
    Bind(migrate_local_key(cert.w, namespace), LAMBDA key :
    Bind(migrate_cas(key.w, F, namespace, ld.r.ok,
                     Ordered(DOMAIN ld.r.ok.cas), FALSE),
         LAMBDA cas :
    IF ~IsOk(cas.r) THEN cas ELSE
    Bind(migrate_roles(cas.w, F, namespace, cas.r.ok.state,
                       Ordered(DOMAIN cas.r.ok.state.roles), <<>>),
         LAMBDA roles :
    Bind(save(roles.w, F, [cas.r.ok.state EXCEPT !.version = STATE_VERSION_V2]), LAMBDA sv :
    IF ~IsOk(roles.r) THEN Ret(sv.w, roles.r)
    ELSE IF IsErr(sv.r) THEN sv
    ELSE Ret(sv.w, Ok([s3_migrated |-> cert.r.ok,
                       local_key_migrated |-> key.r,
                       ca_stack_migrated |-> cas.r.ok.ca_stack_migrated,
                       roles_updated |-> roles.r.ok]))))))))

\* migrate
migrate(W0, F, namespace) ==
    Bind(load_initialized(W0, F, namespace, TRUE), LAMBDA ld :
    IF ~IsOk(ld.r) THEN ld ELSE
    Bind(migrate_s3_cert(ld.w, F, namespace), LAMBDA cert :
    IF IsErr(cert.r) THEN cert ELSE
    Bind(migrate_local_key(cert.w, namespace), LAMBDA key :
    Bind(migrate_cas(key.w, F, namespace, ld.r.ok,
                     Ordered(DOMAIN ld.r.ok.cas), FALSE),
         LAMBDA cas :
    IF ~IsOk(cas.r) THEN cas ELSE
    Bind(migrate_roles(cas.w, F, namespace, cas.r.ok.state,
                       Ordered(DOMAIN cas.r.ok.state.roles), <<>>),
         LAMBDA roles :
    IF ~IsOk(roles.r) THEN roles ELSE
    Bind(save(roles.w, F, [cas.r.ok.state EXCEPT !.version = STATE_VERSION_V2]), LAMBDA sv :
    IF IsErr(sv.r) THEN sv
    ELSE Ret(sv.w, Ok([s3_migrated |-> cert.r.ok,
                       local_key_migrated |-> key.r,
                       ca_stack_migrated |-> cas.r.ok.ca_stack_migrated,
                       roles_updated |-> roles.r.ok]))))))))

-----------------------------------------------------------------------------
(* Recording a handler run *)

NoRun == [op |-> "none", args |-> <<>>, env |-> {}, r |-> None,
          calls |-> <<>>, changed |-> {}, seq |-> 0]

\* The variables after a handler run that ended in world out.w with result
\* out.r; the clock is the environment's.  F is exactly the set of failures
\* the run met: a failure planned for a call the run never made is no
\* different from no failure.
Record(op, args, F, out) ==
    \E o \in {out} :
        /\ o.w.hit = F
        /\ stacks' = o.w.stacks
        /\ s3' = o.w.s3
        /\ ssm' = o.w.ssm
        /\ cache' = o.w.cache
        /\ files' = o.w.files
        /\ last' = [op |-> op, args |-> args, env |-> F, r |-> o.r,
                    calls |-> o.w.calls, changed |-> Changed(World, o.w),
                    seq |-> 1 - last.seq]
        /\ UNCHANGED <<clock, blob, parsed, dumped, procs>>

\* A run of a library function on its own.
Commit(op, args, F, out) == Record(op, args, F, out) /\ UNCHANGED runs

\* A workflow invocation.
Invoke(op, args, F, out) ==
    /\ runs < MaxRuns
    /\ runs' = runs + 1
    /\ Record(op, args, F, out)

\* A handler ran in the step.
Ran(op) == last'.seq # last.seq /\ last'.op = op

-----------------------------------------------------------------------------
(* Specification SpecStore: the state store on its own *)

StoreFaults == {"ssm.get_parameter", "ssm.put_parameter",
                "s3.get_object:state", "s3.put_object:state"}

TickSteps == {299, 300, 301}

QuietJson == blob = NotYet /\ parsed = NotYet /\ dumped = NotYet /\ runs = 0 /\ procs = <<>>

InitStore ==
    /\ stacks = <<>>
    /\ files = <<>>
    /\ clock = 0
    /\ cache = None
    /\ last = NoRun
    /\ QuietJson
    /\ \/ ssm = None /\ s3 = <<>>
       \/ /\ ssm = S3Uri(<<"bucket">>, state_key(NS))
          /\ \E text \in {V1Blob({"admin"}, {}), NotJson, EmptyText} :
                s3 = (state_key(NS) :> encode(text))
       \/ ssm = S3Uri(<<"bucket">>, state_key(NS)) /\ s3 = <<>>

StoreLoad ==
    \E skip_cache \in BOOLEAN, F \in FaultSets(StoreFaults) :
        Commit("load", [skip_cache |-> skip_cache], F, load(World, F, NS, skip_cache))

StoreSave ==
    \E state \in SampleStates, F \in FaultSets(StoreFaults) :
        Commit("save", [state |-> state], F, save(World, F, state))

StoreInvalidate ==
    Commit("invalidate_cache", <<>>, {}, Ret(invalidate_cache(World, NS), Ok(None)))

Tick ==
    /\ \E d \in TickSteps : clock + d <= MaxClock /\ clock' = clock + d
    /\ UNCHANGED <<stacks, s3, ssm, cache, files, last, blob, parsed, dumped, runs, procs>>

NextStore == StoreLoad \/ StoreSave \/ StoreInvalidate \/ Tick

SpecStore == InitStore /\ [][NextStore]_vars


\* C1: save on a State whose init is None returns Err(StateSaveError) and
\* performs no write: it makes no remote call and leaves the blob store, the
\* pointer and the cache file as they were.
C1_SaveWithoutInitFails ==
    (last.op = "save" /\ last.args.state.init = None) =>
        /\ IsErr(last.r)
        /\ last.r.err.kind = "StateSaveError"
        /\ last.calls = <<>>
        /\ last.changed = {}

\* A save of an uninitialised State was attempted while a pointer and a blob
\* were in place.
C1_Witness ==
    /\ last.op = "save"
    /\ last.args.state.init = None
    /\ IsErr(last.r)
    /\ ssm # None
    /\ s3 # <<>>

\* C39: after any sequence of load, save and invalidate_cache calls, with
\* any of the blob write, the pointer write and the blob read failing, a
\* cache file that exists holds the text of the blob stored for the
\* namespace.
C39_CacheCoherent ==
    cache # None
        => /\ state_key(NS) \in DOMAIN s3
           /\ s3[state_key(NS)] = encode(cache.data)

\* C5: load returns Ok(None) exactly when the pointer is absent; every other
\* failure to read the pointer, fetch the blob or parse it is returned as
\* Err(StateLoadError): never Ok(None), never a raised exception.
C5_LoadOutcomes ==
    last.op = "load" =>
        /\ ~IsRaised(last.r)
        /\ IsErr(last.r) => last.r.err.kind = "StateLoadError"
        /\ last.r = Ok(None) => ssm = None
        /\ (last.calls # <<>> /\ ssm = None /\ "ssm.get_parameter" \notin last.env)
                => last.r = Ok(None)

\* C6: load answers from the cache file, making no remote call, exactly when
\* skip_cache is false, the file exists and its age is below CACHE_TTL; in
\* every other case it starts by resolving the pointer, and a state it then
\* returns is the fetched blob, which it has rewritten to the cache file.
C6_CacheFreshness ==
    [][Ran("load") =>
        LET hit == /\ ~last'.args.skip_cache
                   /\ cache # None
                   /\ clock - cache.mtime < 300
        IN
        /\ hit <=> last'.calls = <<>>
        /\ hit => cache' = cache /\ last'.r = Ok(from_json(cache.data))
        /\ ~hit => last'.calls[1] = <<"ssm.get_parameter", NS>>
        /\ (~hit /\ IsOk(last'.r) /\ last'.r.ok # None) =>
                /\ Len(last'.calls) = 2
                /\ last'.calls[2] = <<"s3.get_object", state_key(NS)>>
                /\ cache' = [data |-> decode(s3[state_key(NS)]), mtime |-> clock]
                /\ last'.r = Ok(from_json(cache'.data))
    ]_vars

\* A load was answered from a cache file one second short of the freshness
\* window.
C6_Witness ==
    /\ last.op = "load"
    /\ last.calls = <<>>
    /\ IsOk(last.r)
    /\ cache # None
    /\ clock - cache.mtime = 299

-----------------------------------------------------------------------------
(* Specification SpecCfn: the reconciler on its own *)

CfnFaults == {"cfn.create_stack", "cfn.update_stack", "cfn.delete_stack",
              "cfn.settle:create", "cfn.settle:update", "cfn.settle:delete",
              "cfn.settle:create_failed", "cfn.settle:rollback_failed",
              "cfn.settle:update_rollback_failed",
              "cfn.hang", "cfn.describe_stack_events", "cfn.no_failure_event"}

CfnNames == {role_stack_name(NS, "admin"), host_stack_name(NS, "web1")}
CfnParams == {[RoleName |-> "admin", Policies |-> <<>>],
              [RoleName |-> "admin", Policies |-> <<PolicyArn>>]}

\* Stacks left by earlier runs: none, a deployed one, a deleted one that
\* describe_stacks still lists.
InitCfn ==
    /\ s3 = <<>> /\ ssm = None /\ cache = None /\ files = <<>> /\ clock = 0
    /\ last = NoRun
    /\ QuietJson
    /\ \E status \in {"ABSENT", "CREATE_COMPLETE", "DELETE_COMPLETE"} :
            stacks = IF status = "ABSENT" THEN <<>>
                     ELSE (role_stack_name(NS, "admin") :>
                            [status |-> status,
                             cfg |-> Cfg("role.yaml", [RoleName |-> "admin", Policies |-> <<>>]),
                             prev |-> None])

CfnDeploy ==
    \E stack_name \in CfnNames, parameters \in CfnParams,
       F \in FaultSets(CfnFaults \ {"cfn.delete_stack", "cfn.settle:delete"}) :
        Commit("deploy_stack",
               [stack_name |-> stack_name, template_body |-> "role.yaml",
                parameters |-> parameters, timeout_seconds |-> DEFAULT_TIMEOUT],
               F,
               deploy_stack(World, F, stack_name, "role.yaml", parameters, DEFAULT_TIMEOUT))

CfnDelete ==
    \E stack_name \in CfnNames,
       F \in FaultSets({"cfn.delete_stack", "cfn.settle:delete", "cfn.hang",
                        "cfn.describe_stack_events", "cfn.no_failure_event"}) :
        Commit("delete_stack",
               [stack_name |-> stack_name, timeout_seconds |-> DEFAULT_TIMEOUT],
               F,
               delete_stack(World, F, stack_name, DEFAULT_TIMEOUT))

\* The service finishes, one way or the other, an operation that outlived
\* the call that started it.
CfnSettle ==
    /\ \E stack_name \in DOMAIN stacks, fails \in BOOLEAN, kept \in BOOLEAN :
            /\ stacks[stack_name].status \in InProgress
            /\ stacks' = Settled(stacks, stack_name, fails)
            /\ s3' = IF DeletesBucket(stacks, stack_name) /\ ~fails /\ ~kept
                     THEN <<>> ELSE s3
    /\ UNCHANGED <<ssm, cache, files, clock, last, blob, parsed, dumped, runs, procs>>

NextCfn == CfnDeploy \/ CfnDelete \/ CfnSettle

SpecCfn == InitCfn /\ [][NextCfn]_vars

\* C2 as stated: a deploy_stack call that follows a deploy_stack call with
\* the same arguments does not return a failure, even when none of its own
\* API calls is refused for an outside reason.
C2_SecondDeployNeverFails ==
    [][(Ran("deploy_stack") /\ last.op = "deploy_stack" /\ last'.args = last.args
            /\ last'.env = {})
        => IsOk(last'.r)]_vars

\* C2, amended: a deploy_stack call that follows a successful deploy_stack
\* call with the same arguments, and whose update call the service does not
\* refuse for an outside reason, gets "No updates are to be performed",
\* returns Ok with the current outputs without polling, and changes no stack.
C2_SecondDeployAfterSuccess ==
    [][(Ran("deploy_stack") /\ last.op = "deploy_stack" /\ last'.args = last.args
            /\ IsOk(last.r) /\ "cfn.update_stack" \notin last'.env)
        => /\ last'.r = Ok(OutputsOf(last'.args.stack_name))
           /\ last'.calls = <<<<"cfn.describe_stacks", last'.args.stack_name>>,
                              <<"cfn.update_stack", last'.args.stack_name>>,
                              <<"cfn.describe_stacks", last'.args.stack_name>>>>
           /\ stacks' = stacks]_vars

\* A deploy of the host stack, which only a deploy of this behaviour can
\* have created, was answered "no updates" and returned its outputs.
C2_Witness ==
    /\ last.op = "deploy_stack"
    /\ last.args.stack_name = host_stack_name(NS, "web1")
    /\ last.r = Ok(OutputsOf(host_stack_name(NS, "web1")))
    /\ Len(last.calls) = 3
    /\ last.calls[2] = <<"cfn.update_stack", host_stack_name(NS, "web1")>>

\* C3: delete_stack on a stack that does not exist (not listed, or listed
\* with status DELETE_COMPLETE) returns Ok(None) without calling the delete
\* API, and the stacks are as they were.
C3_DeleteNonexistent ==
    [][(Ran("delete_stack")
            /\ (last'.args.stack_name \notin DOMAIN stacks
                \/ stacks[last'.args.stack_name].status = "DELETE_COMPLETE"))
        => /\ last'.r = Ok(None)
           /\ \A i \in DOMAIN last'.calls : last'.calls[i][1] # "cfn.delete_stack"
           /\ stacks' = stacks]_vars

\* delete_stack has answered for a stack listed as DELETE_COMPLETE.
C3_Witness ==
    /\ last.op = "delete_stack"
    /\ last.r = Ok(None)
    /\ last.args.stack_name \in DOMAIN stacks
    /\ stacks[last.args.stack_name].status = "DELETE_COMPLETE"

\* C28: when the service fails the operation that deploy_stack or
\* delete_stack started, in any of the six ways, the next status poll is the
\* last one: the call fetches the failure reason and returns
\* Err(StackDeployError), from delete_stack Err(StackDeleteError), for the
\* stack with exactly the status the stack is in.
C28_TerminalFailure ==
    [][\A fault \in {"cfn.settle:create", "cfn.settle:update", "cfn.settle:delete",
                     "cfn.settle:create_failed", "cfn.settle:rollback_failed",
                     "cfn.settle:update_rollback_failed"} :
        ((Ran("deploy_stack") \/ Ran("delete_stack")) /\ fault \in last'.env)
        => /\ IsErr(last'.r)
           /\ last'.r.err.kind = (IF last'.op = "deploy_stack"
                                  THEN "StackDeployError" ELSE "StackDeleteError")
           /\ last'.r.err.stack_name = last'.args.stack_name
           /\ last'.r.err.status = FailureStatus(fault)
           /\ stacks'[last'.args.stack_name].status = FailureStatus(fault)
           /\ Len(last'.calls) = 5
           /\ last'.calls[3][1] = "cfn.describe_stacks"
           /\ last'.calls[4][1] = "cfn.describe_stacks"
           /\ last'.calls[5] = <<"cfn.describe_stack_events", last'.args.stack_name>>]_vars

\* A deploy whose creation failed and whose rollback failed too has
\* returned the status ROLLBACK_FAILED.
C28_Witness ==
    /\ last.op = "deploy_stack"
    /\ IsErr(last.r)
    /\ last.r.err.status = "ROLLBACK_FAILED"
    /\ stacks[last.args.stack_name].status = "ROLLBACK_FAILED"

\* The calls of a run made to one API.
IssuedTo(calls, api) == Len(SelectSeq(calls, LAMBDA c : c[1] = api))

\* The stack is there for stack_exists: listed, in any status but
\* DELETE_COMPLETE.
Existing(stks, stack_name) ==
    stack_name \in DOMAIN stks /\ stks[stack_name].status # "DELETE_COMPLETE"

C36_OkOnlyOnTarget ==
    [][(Ran("deploy_stack") /\ IsOk(last'.r))
        => LET name == last'.args.stack_name
               created == last'.calls[2][1] = "cfn.create_stack"
           IN
           \/ /\ ~created
              /\ Len(last'.calls) = 3
              /\ stacks' = stacks
              /\ stacks[name].cfg = Cfg(last'.args.template_body, last'.args.parameters)
           \/ /\ Len(last'.calls) >= 4
              /\ \A i \in 3..Len(last'.calls) :
                    last'.calls[i] = <<"cfn.describe_stacks", name>>
              /\ stacks'[name].status =
                    (IF created THEN "CREATE_COMPLETE" ELSE "UPDATE_COMPLETE")
              /\ stacks'[name].cfg = Cfg(last'.args.template_body, last'.args.parameters)
              /\ last'.env \cap {"cfn.hang", "cfn.settle:create", "cfn.settle:update",
                                 "cfn.settle:create_failed", "cfn.settle:rollback_failed",
                                 "cfn.settle:update_rollback_failed"} = {}]_vars

\* A deploy that updated an existing stack polled until UPDATE_COMPLETE and
\* returned Ok.
C36_Witness ==
    /\ last.op = "deploy_stack"
    /\ IsOk(last.r)
    /\ last.calls[2][1] = "cfn.update_stack"
    /\ Len(last.calls) >= 4
    /\ stacks[last.args.stack_name].status = "UPDATE_COMPLETE"

-----------------------------------------------------------------------------
(* Specification SpecWait: wait_for_stack on its own, called on a stack in  *)
(* any status an earlier call can have left it in                           *)

WaitStatuses == {"ABSENT", "CREATE_COMPLETE", "UPDATE_COMPLETE", "DELETE_COMPLETE"}
                    \cup InProgress \cup failed_states
WaitTargets == {"CREATE_COMPLETE", "UPDATE_COMPLETE", "DELETE_COMPLETE"}
\* Timeouts below, at and above zero, and around the multiples of the
\* poll intervals.
WaitTimeouts == {-1, 0, 4, 10, 11}
WaitIntervals == {2, 5}
WaitFaults == {"cfn.hang", "cfn.settle:create", "cfn.settle:create_failed",
               "cfn.describe_stack_events", "cfn.no_failure_event"}

InitWait ==
    /\ s3 = <<>> /\ ssm = None /\ cache = None /\ files = <<>> /\ clock = 0
    /\ last = NoRun
    /\ QuietJson
    /\ \E status \in WaitStatuses :
            stacks = IF status = "ABSENT" THEN <<>>
                     ELSE (role_stack_name(NS, "admin") :>
                            [status |-> status,
                             cfg |-> Cfg("role.yaml", [RoleName |-> "admin", Policies |-> <<>>]),
                             prev |-> IF status = "UPDATE_IN_PROGRESS"
                                      THEN Cfg("role.yaml", [RoleName |-> "admin",
                                                             Policies |-> <<PolicyArn>>])
                                      ELSE None])

CfnWait ==
    \E target_status \in WaitTargets, timeout_seconds \in WaitTimeouts,
       poll_interval \in WaitIntervals, F \in FaultSets(WaitFaults) :
        Invoke("wait_for_stack",
               [stack_name |-> role_stack_name(NS, "admin"),
                target_status |-> target_status,
                timeout_seconds |-> timeout_seconds, poll_interval |-> poll_interval],
               F,
               wait_for_stack(World, F, role_stack_name(NS, "admin"), target_status,
                              timeout_seconds, poll_interval))

NextWait ==
    \/ runs < MaxInvocations /\ CfnWait
    \/ CfnSettle

SpecWait == InitWait /\ [][NextWait]_vars

\* ceil(timeout_seconds / poll_interval), and 0 for a timeout that is not
\* positive.
MaxPolls(timeout_seconds, poll_interval) ==
    IF timeout_seconds <= 0 THEN 0
    ELSE (timeout_seconds + poll_interval - 1) \div poll_interval

\* The status polls of a run.
Polls(calls) == Len(SelectSeq(calls, LAMBDA c : c[1] = "cfn.describe_stacks"))

\* C29: wait_for_stack makes at most ceil(timeout_seconds / poll_interval)
\* status polls, none when timeout_seconds <= 0, and returns Ok with the
\* stack in the target status (or gone, for DELETE_COMPLETE), or Err with the
\* failed status the stack is in, or, after exactly that many polls,
\* Err with the status TIMEOUT, which is no status of a stack.
C29_PollLoopTerminates ==
    [][Ran("wait_for_stack")
        => LET a == last'.args
               most == MaxPolls(a.timeout_seconds, a.poll_interval)
               status == IF a.stack_name \in DOMAIN stacks'
                         THEN stacks'[a.stack_name].status ELSE NoStatus
           IN
           /\ Polls(last'.calls) <= most
           /\ \/ /\ last'.r = Ok(None)
                 /\ \/ status = a.target_status
                    \/ a.target_status = "DELETE_COMPLETE" /\ status = NoStatus
              \/ /\ IsErr(last'.r)
                 /\ last'.r.err.status = status
                 /\ status \in {"CREATE_FAILED", "ROLLBACK_COMPLETE", "ROLLBACK_FAILED",
                                "UPDATE_ROLLBACK_COMPLETE", "UPDATE_ROLLBACK_FAILED",
                                "DELETE_FAILED"}
              \/ /\ IsErr(last'.r)
                 /\ last'.r.err.status = "TIMEOUT"
                 /\ Polls(last'.calls) = most
                 /\ status # "TIMEOUT"
                 /\ \A i \in DOMAIN last'.calls :
                        last'.calls[i][1] # "cfn.describe_stack_events"]_vars

\* A wait on an operation that hangs, with a timeout of 11 s and polls 5 s
\* apart, made three polls and returned TIMEOUT.
C29_Witness ==
    /\ last.op = "wait_for_stack"
    /\ last.args.timeout_seconds = 11
    /\ last.args.poll_interval = 5
    /\ last.env = {"cfn.hang"}
    /\ IsErr(last.r)
    /\ last.r.err.status = "TIMEOUT"
    /\ Polls(last.calls) = 3

\* C37 as stated: when a poll of wait_for_stack sees a terminal failure
\* status and describe_stack_events fails, the result is Err with that
\* status and the reason "Unknown failure reason".
C37_ReasonDegradesToUnknown ==
    [][(Ran("wait_for_stack") /\ "cfn.describe_stack_events" \in last'.env)
        => /\ IsErr(last'.r)
           /\ last'.r.err.status = stacks'[last'.args.stack_name].status
           /\ last'.r.err.status \in failed_states
           /\ last'.r.err.reason = "Unknown failure reason"]_vars

\* C37, amended: when a poll of wait_for_stack sees a terminal failure
\* status, the result is Err with exactly that status whatever becomes of
\* the event history: the reason is "Could not retrieve failure reason" when
\* describe_stack_events fails, "Unknown failure reason" when it answers
\* with no failed event that has a reason, and the reason of the event
\* otherwise.
C37_FailureNotMasked ==
    [][(Ran("wait_for_stack")
            /\ \E i \in DOMAIN last'.calls : last'.calls[i][1] = "cfn.describe_stack_events")
        => /\ IsErr(last'.r)
           /\ last'.r.err.kind = "StackDeployError"
           /\ last'.r.err.status = stacks'[last'.args.stack_name].status
           /\ last'.r.err.status \in failed_states
           /\ last'.r.err.reason =
                (IF "cfn.describe_stack_events" \in last'.env
                 THEN "Could not retrieve failure reason"
                 ELSE IF "cfn.no_failure_event" \in last'.env
                 THEN "Unknown failure reason"
                 ELSE "Resource handler returned message")]_vars

\* A wait saw UPDATE_ROLLBACK_FAILED, could not fetch the event history,
\* and returned the status all the same.
C37_Witness ==
    /\ last.op = "wait_for_stack"
    /\ last.env = {"cfn.describe_stack_events"}
    /\ IsErr(last.r)
    /\ last.r.err.status = "UPDATE_ROLLBACK_FAILED"
    /\ last.r.err.reason = "Could not retrieve failure reason"

-----------------------------------------------------------------------------
(* Specification Spec: the workflows against one namespace *)

Deployed(cfg) == [status |-> "CREATE_COMPLETE", cfg |-> cfg, prev |-> None]

InitStack == init_stack_name(NS) :> Deployed(Cfg("init.yaml", [Namespace |-> NS]))
V1CAStack ==
    rootca_stack_name(NS) :>
        Deployed(Cfg("rootca-self-signed.yaml",
                     [Namespace |-> NS, CACertificateS3Key |-> old_ca_cert_s3_key(NS)]))
V1RoleStack(name) ==
    role_stack_name(NS, name) :>
        Deployed(Cfg("role.yaml", [Namespace |-> NS, RoleName |-> name,
                                   TrustAnchorArn |-> None, PolicyArns |-> <<>>]))
V1HostStack(hostname) ==
    host_stack_name(NS, hostname) :>
        Deployed(Cfg("host.yaml",
                     [Namespace |-> NS, Hostname |-> hostname,
                      CertificateS3Key |-> host_cert_s3_key(NS, hostname),
                      PrivateKeyS3Key |-> host_key_s3_key(NS, hostname)]))

Pointer == S3Uri(<<"bucket">>, state_key(NS))

\* What a v1 release left behind: the init, CA and role stacks, the state
\* blob in the v1 layout, the CA certificate and key at their unscoped paths.
SeedV1 ==
    /\ stacks = InitStack @@ V1CAStack @@ V1RoleStack("admin")
    /\ ssm = Pointer
    /\ s3 = (state_key(NS) :> encode(V1Blob({"admin"}, {})))
            @@ (old_ca_cert_s3_key(NS) :> encode(CACertPem("legacy")))
    /\ files = (old_ca_key_local_path(NS) :> CAKeyPem("legacy"))

\* The same with a host onboarded.
SeedV1Host ==
    /\ stacks = InitStack @@ V1CAStack @@ V1RoleStack("admin") @@ V1HostStack("web1")
    /\ ssm = Pointer
    /\ s3 = (state_key(NS) :> encode(V1Blob({"admin"}, {"web1"})))
            @@ (old_ca_cert_s3_key(NS) :> encode(CACertPem("legacy")))
            @@ (host_cert_s3_key(NS, "web1") :>
                    encode(HostCertPem("web1", CACertPem("legacy"))))
            @@ (host_key_s3_key(NS, "web1") :> encode(HostKeyPem("web1")))
    /\ files = (old_ca_key_local_path(NS) :> CAKeyPem("legacy"))

\* A v1 namespace with a second role, ops, and a second host, web2, that
\* uses it.
SeedV1TwoHosts ==
    /\ stacks = InitStack @@ V1CAStack @@ V1RoleStack("admin") @@ V1RoleStack("ops")
                          @@ V1HostStack("web1") @@ V1HostStack("web2")
    /\ ssm = Pointer
    /\ s3 = (state_key(NS) :>
                encode([V1Blob({"admin", "ops"}, {"web1", "web2"})
                            EXCEPT !.hosts["web2"] = HostRec("web2", "ops")]))
            @@ (old_ca_cert_s3_key(NS) :> encode(CACertPem("legacy")))
            @@ [k \in {host_cert_s3_key(NS, h) : h \in {"web1", "web2"}} |->
                    encode(HostCertPem(k[3], CACertPem("legacy")))]
            @@ [k \in {host_key_s3_key(NS, h) : h \in {"web1", "web2"}} |->
                    encode(HostKeyPem(k[3]))]
    /\ files = (old_ca_key_local_path(NS) :> CAKeyPem("legacy"))

\* A namespace the current release has just initialised.
SeedV2 ==
    /\ stacks = InitStack
    /\ ssm = Pointer
    /\ s3 = (state_key(NS) :> encode(to_json(MkState("2.0.0", InitRec, <<>>, <<>>, <<>>))))
    /\ files = <<>>

\* The stacks the current release deploys for a scope's CA and for a role
\* bound to that scope.
V2CAStack(scope) ==
    ca_stack_name(NS, scope) :>
        Deployed(Cfg("rootca-self-signed.yaml",
                     [Namespace |-> NS, CACertificateS3Key |-> ca_cert_s3_key(NS, scope)]))
V2RoleStack(name, scope) ==
    role_stack_name(NS, name) :>
        Deployed(Cfg("role.yaml",
                     [Namespace |-> NS, RoleName |-> name,
                      TrustAnchorArn |-> TrustAnchorArnOf(ca_stack_name(NS, scope)),
                      PolicyArns |-> <<>>]))

\* A namespace with two scopes, each with its CA, and the role admin bound
\* to the scope cm.
ScopedState ==
    MkState("2.0.0", InitRec,
            [sc \in ScopeNames |-> CARec(ca_stack_name(NS, sc))],
            [r \in {"admin"} |-> RoleRec(r, <<>>, "cm")],
            <<>>)

SeedScoped ==
    /\ stacks = InitStack @@ V2CAStack("default") @@ V2CAStack("cm")
                          @@ V2RoleStack("admin", "cm")
    /\ ssm = Pointer
    /\ s3 = (state_key(NS) :> encode(to_json(ScopedState)))
            @@ [k \in {ca_cert_s3_key(NS, sc) : sc \in ScopeNames} |->
                    encode(CACertPem(k[3]))]
    /\ files = [q \in {ca_key_local_path(NS, sc) : sc \in ScopeNames} |->
                    CAKeyPem(q[4])]

\* A namespace never initialised.
SeedNone == stacks = <<>> /\ ssm = None /\ s3 = <<>> /\ files = <<>>

Init ==
    /\ SeedV1 \/ SeedV1Host \/ SeedV1TwoHosts \/ SeedV2 \/ SeedScoped \/ SeedNone
    /\ cache = None
    /\ clock = 0
    /\ last = NoRun
    /\ QuietJson

\* The kinds of failure each workflow can meet, by the calls it makes.
StateFaults == {"ssm.get_parameter", "s3.get_object:state", "s3.put_object:state",
                "ssm.put_parameter"}
\* The failures of the event-history fetch change the reason text of a stack
\* error only: they are met in SpecCfn and SpecWait, not in the workflows.
DeployFaults == {"cfn.create_stack", "cfn.update_stack", "cfn.settle:create",
                 "cfn.settle:update", "cfn.hang"}
DeleteFaults == {"cfn.delete_stack", "cfn.settle:delete", "cfn.hang"}

WfCreateRole ==
    \E name \in RoleNames, policies \in {<<>>, <<PolicyArn>>},
       F \in FaultSets(StateFaults \cup DeployFaults) :
        Invoke("create_role", [name |-> name, policies |-> policies], F,
               create_role(World, F, NS, name, policies))

WfDeleteRole ==
    \E name \in RoleNames, force \in BOOLEAN,
       F \in FaultSets(StateFaults \cup DeleteFaults) :
        Invoke("delete_role", [name |-> name, force |-> force], F,
               delete_role(World, F, NS, name, force))

WfOnboard ==
    \E hostname \in HostNames, role_name \in RoleNames, overwrite \in BOOLEAN,
       F \in FaultSets(StateFaults \cup DeployFaults
                        \cup {"s3.get_object", "s3.put_object", "sops"}) :
        Invoke("onboard",
               [hostname |-> hostname, role_name |-> role_name, overwrite |-> overwrite],
               F, onboard(World, F, NS, hostname, role_name, TRUE, overwrite))

WfOffboard ==
    \E hostname \in HostNames,
       F \in FaultSets(StateFaults \cup DeleteFaults \cup {"s3.delete_object"}) :
        Invoke("offboard", [hostname |-> hostname], F, offboard(World, F, NS, hostname))

WfSetupCA ==
    \E scope \in ScopeNames,
       F \in FaultSets(StateFaults \cup DeployFaults \cup {"s3.put_object"}) :
        Invoke("setup_ca", [scope |-> scope], F, setup_ca(World, F, NS, scope))

WfDeleteScope ==
    \E scope \in ScopeNames, F \in FaultSets(StateFaults \cup DeleteFaults) :
        Invoke("delete_scope", [scope |-> scope], F, delete_scope(World, F, NS, scope))

WfMigrate ==
    \E F \in FaultSets(FaultPoints \ {"sops", "cfn.describe_stack_events",
                                      "cfn.no_failure_event"}) :
        Invoke("migrate", [namespace |-> NS], F, migrate(World, F, NS))

WfInit ==
    \E ca_mode \in CAModes, pca_arn \in {None, PcaArn},
       F \in FaultSets(DeployFaults \cup {"s3.put_object", "cfn.create_stack:ca"}) :
        Invoke("init", [ca_mode |-> ca_mode, pca_arn |-> pca_arn], F,
               init(World, F, NS, ca_mode, pca_arn))

WfDestroy ==
    \E F \in FaultSets({"ssm.get_parameter", "s3.get_object:state", "s3.delete_object",
                         "s3.bucket_kept"}
                        \cup DeleteFaults \cup KindDeleteFaults) :
        Invoke("destroy", [namespace |-> NS], F, destroy(World, F, NS))

Next ==
    \/ WfCreateRole \/ WfDeleteRole
    \/ WfOnboard \/ WfOffboard
    \/ WfSetupCA \/ WfDeleteScope
    \/ WfMigrate
    \/ WfDestroy
    \/ CfnSettle

Spec == Init /\ [][Next]_vars

\* The state the blob store holds for the namespace, as from_json reads it;
\* None when there is no pointer or no object.
PersistedState ==
    IF ssm = None \/ state_key(NS) \notin DOMAIN s3
    THEN None
    ELSE from_json(decode(s3[state_key(NS)]))

\* Every stack identifier a state records.
RecordedStacks(state) ==
    (IF state.init = None THEN {} ELSE {state.init.stack_name})
    \cup {state.cas[k].stack_name : k \in DOMAIN state.cas}
    \cup {state.roles[k].stack_name : k \in DOMAIN state.roles}
    \cup {state.hosts[k].stack_name : k \in DOMAIN state.hosts}

\* C4: after any sequence of workflow invocations, failed ones included,
\* every stack identifier recorded in the persisted state blob names a
\* stack that still exists.
C4_PersistedStacksExist ==
    (PersistedState # None /\ ~IsRaised(PersistedState)) =>
        \A n \in RecordedStacks(PersistedState) :
            n \in DOMAIN stacks /\ stacks[n].status # "DELETE_COMPLETE"

-----------------------------------------------------------------------------
(* Specification SpecWorkflow: single workflow invocations against each of  *)
(* the seeded namespaces                                                     *)

NextWorkflow ==
    \/ runs < MaxInvocations /\ WfCreateRole
    \/ runs < MaxInvocations /\ WfDeleteRole
    \/ runs < MaxInvocations /\ WfOnboard
    \/ runs < MaxInvocations /\ WfOffboard
    \/ runs < MaxInvocations /\ WfSetupCA
    \/ runs < MaxInvocations /\ WfDeleteScope
    \/ runs < MaxInvocations /\ WfMigrate
    \/ CfnSettle

SpecWorkflow == Init /\ [][NextWorkflow]_vars

\* The step of migrate a remote call belongs to: 0 the load, 1 the
\* certificate object, 3 the CA stacks, 4 the role stacks, 5 the save.
StepOfCall(c) ==
    CASE c[1] = "ssm.get_parameter" -> 0
      [] c[1] = "ssm.put_parameter" -> 5
      [] c[1] = "s3.get_object" -> IF c[2] = state_key(NS) THEN 0 ELSE 1
      [] c[1] = "s3.put_object" -> IF c[2] = state_key(NS) THEN 5 ELSE 1
      [] c[1] \in {"s3.head_object", "s3.delete_object"} -> 1
      [] OTHER -> IF c[2][3] = "role" THEN 4 ELSE 3

\* The step of migrate an error it returns comes from.
StepOfError(e) ==
    CASE e.kind \in {"StateLoadError", "NotInitializedError"} -> 0
      [] e.kind \in {"StackDeployError", "StackDeleteError"} ->
            IF e.stack_name[3] = "role" THEN 4 ELSE 3
      [] OTHER ->
            IF e.reason \in {"Failed to read old CA cert", "Failed to write scoped CA cert"}
            THEN 1 ELSE 5

\* save failed at the pointer update, after it wrote the blob.
IsPointerFailure(e) == e.kind = "StateSaveError" /\ e.reason = "Failed to update SSM"

\* The step leaves the state blob in the blob store as it was.
StateBlobKept ==
    /\ state_key(NS) \in DOMAIN s3 <=> state_key(NS) \in DOMAIN s3'
    /\ state_key(NS) \in DOMAIN s3 => s3'[state_key(NS)] = s3[state_key(NS)]

Initialized ==
    /\ PersistedState # None
    /\ ~IsRaised(PersistedState)
    /\ is_initialized(PersistedState)

\* The run made a call that issues a certificate or deploys a stack.
IssuedOrDeployed(calls) ==
    \E i \in DOMAIN calls :
        calls[i][1] \in {"s3.put_object", "cfn.create_stack", "cfn.update_stack"}

\* C12: when onboard runs for a host whose role has a scope S other than
\* "default" and cas[S] exists, the CA certificate the issuing operation
\* reads is the one of scope S and the trust anchor written to the secrets
\* file is cas[S].trust_anchor_arn.
C12_OnboardScopeIsolation ==
    [][(/\ Ran("onboard")
        /\ Initialized
        /\ last'.args.role_name \in DOMAIN PersistedState.roles
        /\ PersistedState.roles[last'.args.role_name].scope # "default"
        /\ PersistedState.roles[last'.args.role_name].scope \in DOMAIN PersistedState.cas)
        => LET S == PersistedState.roles[last'.args.role_name].scope IN
           \A i \in DOMAIN last'.calls :
              /\ last'.calls[i][1] = "sops" =>
                    last'.calls[i][2].trust_anchor_arn = PersistedState.cas[S].trust_anchor_arn
              /\ (/\ last'.calls[i][1] = "s3.get_object"
                  /\ last'.calls[i][2] # state_key(NS)) =>
                    last'.calls[i][2] = ca_cert_s3_key(NS, S)]_vars

\* C13: when onboard runs for a role whose scope has no CA in cas, it
\* returns CAScopeNotFoundError naming that scope, issues no certificate,
\* deploys no stack and leaves the state blob as it was.
C13_OnboardScopeNotFound ==
    [][(/\ Ran("onboard")
        /\ Initialized
        /\ last'.env = {}
        /\ last'.args.role_name \in DOMAIN PersistedState.roles
        /\ last'.args.hostname \notin DOMAIN PersistedState.hosts
        /\ PersistedState.roles[last'.args.role_name].scope \notin DOMAIN PersistedState.cas)
        => /\ IsErr(last'.r)
           /\ last'.r.err.kind = "CAScopeNotFoundError"
           /\ last'.r.err.scope = PersistedState.roles[last'.args.role_name].scope
           /\ ~IssuedOrDeployed(last'.calls)
           /\ StateBlobKept]_vars

\* C14: create_role (its scope is the default one, "default") on an
\* initialized namespace whose cas has no such scope returns
\* CAScopeNotFoundError for that scope, deploys no stack and leaves the
\* state blob as it was.
C14_CreateRoleNeedsScopeCA ==
    [][(/\ Ran("create_role")
        /\ Initialized
        /\ last'.env = {}
        /\ "default" \notin DOMAIN PersistedState.cas)
        => /\ IsErr(last'.r)
           /\ last'.r.err.kind = "CAScopeNotFoundError"
           /\ last'.r.err.scope = "default"
           /\ ~IssuedOrDeployed(last'.calls)
           /\ StateBlobKept]_vars

\* C15: create_role on an initialized namespace whose cas has the scope
\* "default", meeting no failure, deploys the role stack with
\* cas["default"].trust_anchor_arn as its trust anchor and saves a Role that
\* records the scope "default".
C15_CreateRoleBindsScope ==
    [][(/\ Ran("create_role")
        /\ Initialized
        /\ last'.env = {}
        /\ "default" \in DOMAIN PersistedState.cas)
        => LET n == role_stack_name(NS, last'.args.name) IN
           /\ n \in DOMAIN stacks'
           /\ stacks'[n].cfg.parameters.TrustAnchorArn =
                PersistedState.cas["default"].trust_anchor_arn
           /\ Initialized'
           /\ last'.args.name \in DOMAIN PersistedState'.roles
           /\ PersistedState'.roles[last'.args.name].scope = "default"]_vars

\* C17: create_role on an initialized namespace with a CA for the scope,
\* meeting no failure, attempts the stack deploy whether or not roles[name]
\* exists and returns Ok; afterwards roles[name] is the returned record with
\* the policies asked for, and every other entry of roles, hosts and cas is
\* as it was.
C17_CreateRoleUpsert ==
    [][(/\ Ran("create_role")
        /\ Initialized
        /\ last'.env = {}
        /\ "default" \in DOMAIN PersistedState.cas)
        => /\ \E i \in DOMAIN last'.calls :
                /\ last'.calls[i][1] \in {"cfn.create_stack", "cfn.update_stack"}
                /\ last'.calls[i][2] = role_stack_name(NS, last'.args.name)
           /\ IsOk(last'.r)
           /\ Initialized'
           /\ last'.args.name \in DOMAIN PersistedState'.roles
           /\ PersistedState'.roles[last'.args.name] = last'.r.ok
           /\ last'.r.ok.policies = last'.args.policies
           /\ \A k \in DOMAIN PersistedState.roles \ {last'.args.name} :
                /\ k \in DOMAIN PersistedState'.roles
                /\ PersistedState'.roles[k] = PersistedState.roles[k]
           /\ PersistedState'.hosts = PersistedState.hosts
           /\ PersistedState'.cas = PersistedState.cas]_vars

\* The hosts of a state that use the role.
HostsUsing(state, name) ==
    {h \in DOMAIN state.hosts : state.hosts[h].role_name = name}

StackGone(all, n) == n \notin DOMAIN all \/ all[n].status = "DELETE_COMPLETE"

\* What a workflow's load answers when no call fails: the cached state
\* while the cache file is fresh, the persisted one otherwise.
Loaded == load(World, {}, NS, FALSE).r

\* The load answers with a state that has its init: the state the workflow
\* validates its preconditions against.
LoadsInitialized ==
    /\ IsOk(Loaded)
    /\ Loaded.ok # None
    /\ is_initialized(Loaded.ok)

\* C16: delete_role for a role that, in the state the workflow loads, at
\* least one host references: without force it calls no stack deletion and
\* leaves stacks, state blob and pointer as they were, and meeting no failure
\* it returns RoleInUseError listing exactly the hostnames whose role_name is
\* the role; with force, meeting no failure, it returns Ok, the role stack
\* is gone and the persisted state is the loaded one without roles[name].
C16_RoleInUseGuard ==
    [][(/\ Ran("delete_role")
        /\ LoadsInitialized
        /\ last'.args.name \in DOMAIN Loaded.ok.roles
        /\ HostsUsing(Loaded.ok, last'.args.name) # {})
        => /\ ~last'.args.force =>
                /\ \A i \in DOMAIN last'.calls : last'.calls[i][1] # "cfn.delete_stack"
                /\ stacks' = stacks
                /\ s3' = s3
                /\ ssm' = ssm
                /\ last'.env = {} =>
                    last'.r = Err([kind |-> "RoleInUseError",
                                   role_name |-> last'.args.name,
                                   hosts |-> HostsUsing(Loaded.ok, last'.args.name)])
           /\ (last'.args.force /\ last'.env = {}) =>
                /\ last'.r = Ok(None)
                /\ StackGone(stacks', role_stack_name(NS, last'.args.name))
                /\ Initialized'
                /\ PersistedState'.roles = Remove(Loaded.ok.roles, last'.args.name)
                /\ PersistedState'.hosts = Loaded.ok.hosts
                /\ PersistedState'.cas = Loaded.ok.cas]_vars

\* delete_role without force was refused in the namespace where web1 uses
\* admin and web2 uses ops: the error lists web1 alone.
C16_Witness ==
    /\ last.op = "delete_role"
    /\ ~last.args.force
    /\ IsErr(last.r)
    /\ last.r.err.kind = "RoleInUseError"
    /\ last.r.err.hosts = {"web1"}
    /\ Initialized
    /\ DOMAIN PersistedState.hosts = {"web1", "web2"}
    /\ "admin" \in DOMAIN PersistedState.roles

\* C18: onboard on an initialized namespace, once the state is loaded,
\* returns RoleNotFoundError when role_name is not in roles, and
\* HostAlreadyExistsError when the role exists, hostname is in hosts and
\* overwrite is false; either way it issues no certificate, deploys no stack
\* and leaves stacks and state blob as they were.
C18_OnboardPreconditions ==
    [][(/\ Ran("onboard")
        /\ Initialized
        /\ last'.env = {}
        /\ \/ last'.args.role_name \notin DOMAIN PersistedState.roles
           \/ (last'.args.hostname \in DOMAIN PersistedState.hosts
                    /\ ~last'.args.overwrite))
        => /\ IsErr(last'.r)
           /\ last'.r.err.kind =
                (IF last'.args.role_name \notin DOMAIN PersistedState.roles
                 THEN "RoleNotFoundError" ELSE "HostAlreadyExistsError")
           /\ ~IssuedOrDeployed(last'.calls)
           /\ stacks' = stacks
           /\ StateBlobKept]_vars

C20_Offboard ==
    [][(/\ Ran("offboard")
        /\ LoadsInitialized
        /\ last'.args.hostname \in DOMAIN Loaded.ok.hosts)
        => /\ (IsErr(last'.r) /\ last'.r.err.kind = "StackDeleteError") =>
                /\ StateBlobKept
                /\ ssm' = ssm
                /\ \A i \in DOMAIN last'.calls : last'.calls[i][1] # "s3.delete_object"
           /\ (last'.env \cap DeleteFaults # {}) =>
                (IsErr(last'.r) /\ last'.r.err.kind = "StackDeleteError")
           /\ (last'.env \subseteq {"s3.delete_object"}) =>
                /\ last'.r = Ok(None)
                /\ StackGone(stacks', Loaded.ok.hosts[last'.args.hostname].stack_name)
                /\ Initialized'
                /\ PersistedState'.hosts = Remove(Loaded.ok.hosts, last'.args.hostname)
                /\ PersistedState'.roles = Loaded.ok.roles
                /\ PersistedState'.cas = Loaded.ok.cas]_vars

\* offboard has returned Ok although the deletion of the host's objects
\* failed: the host has left the persisted state, its certificate object is
\* still in the bucket.
C20_Witness ==
    /\ last.op = "offboard"
    /\ last.env = {"s3.delete_object"}
    /\ last.r = Ok(None)
    /\ Initialized
    /\ last.args.hostname \notin DOMAIN PersistedState.hosts
    /\ host_cert_s3_key(NS, last.args.hostname) \in DOMAIN s3


-----------------------------------------------------------------------------
(* Specification SpecLifecycle: single init and destroy invocations against  *)
(* each of the seeded namespaces                                             *)

NextLifecycle ==
    \/ runs < MaxInvocations /\ WfInit
    \/ runs < MaxInvocations /\ WfDestroy
    \/ CfnSettle

SpecLifecycle == Init /\ [][NextLifecycle]_vars

\* The stacks a run asked the service to delete, in the order of the calls.
DeletedInOrder(calls) ==
    LET dels == SelectSeq(calls, LAMBDA c : c[1] = "cfn.delete_stack")
    IN [i \in DOMAIN dels |-> dels[i][2]]

\* Where a stack comes in destroy's order: hosts, roles, CA, bootstrap.
DestroyRank(stack_name) ==
    CASE stack_name[3] = "host" -> 1
      [] stack_name[3] = "role" -> 2
      [] stack_name[3] \in {"ca", "rootca"} -> 3
      [] OTHER -> 4

\* The stacks of one rank that a state records.
StacksOfRank(state, rank) == {n \in RecordedStacks(state) : DestroyRank(n) = rank}

\* The step deleted a stack that was there.
Deleted(n) == ~StackGone(stacks, n) /\ StackGone(stacks', n)

\* C21: destroy asks for the deletions in the order hosts, roles, CA,
\* bootstrap; it asks for the next one only when the stack of the one before
\* is gone, so a failed deletion is the last one asked for; and when it has
\* deleted a stack, every stack the loaded state records in an earlier rank
\* is gone: no role stack while a host stack remains, no CA stack while a
\* role stack remains, the bootstrap stack only when all others are gone.
C21_DestroyOrdering ==
    [][(Ran("destroy") /\ LoadsInitialized)
        => LET dels == DeletedInOrder(last'.calls) IN
           /\ \A i, j \in DOMAIN dels :
                i < j => DestroyRank(dels[i]) <= DestroyRank(dels[j])
           /\ \A i \in DOMAIN dels : i < Len(dels) => StackGone(stacks', dels[i])
           /\ \A n \in RecordedStacks(Loaded.ok) :
                Deleted(n) =>
                    \A m \in RecordedStacks(Loaded.ok) :
                        DestroyRank(m) < DestroyRank(n) => StackGone(stacks', m)]_vars

\* C22: when destroy returns Ok, the CA stack of every scope of the loaded
\* state's cas is gone, and its deletion was asked for before the bootstrap
\* stack's.
C22_DestroyRemovesEveryCA ==
    [][(Ran("destroy") /\ LoadsInitialized /\ IsOk(last'.r))
        => \A scope \in DOMAIN Loaded.ok.cas :
              StackGone(stacks', Loaded.ok.cas[scope].stack_name)]_vars

\* C23: when destroy returns Ok the namespace is no longer initialized, and
\* the workflow invoked next on the namespace, meeting no failure of its
\* own, returns NotInitializedError.
C23_DestroyedIsNotInitialized ==
    [][/\ (Ran("destroy") /\ IsOk(last'.r)) => ~Initialized'
       /\ (/\ last'.seq # last.seq
           /\ last.op = "destroy"
           /\ IsOk(last.r)
           /\ last'.op \in {"create_role", "delete_role", "onboard", "offboard",
                            "setup_ca", "delete_scope", "destroy"}
           /\ last'.env = {})
          => (IsErr(last'.r) /\ last'.r.err.kind = "NotInitializedError")]_vars

\* The run made no call that writes the state blob or the pointer record.
NoSaveCall(calls) ==
    \A i \in DOMAIN calls :
        /\ calls[i][1] # "ssm.put_parameter"
        /\ calls[i][1] = "s3.put_object" => calls[i][2] # state_key(NS)

\* C24: whenever init returns an error, it has made no call of save, the
\* pointer record, the state blob and the cache are as they were, and no
\* stack was deleted: the stacks created so far are left in place.
C24_FailedInitPersistsNothing ==
    [][(Ran("init") /\ IsErr(last'.r))
        => /\ NoSaveCall(last'.calls)
           /\ ssm' = ssm
           /\ StateBlobKept
           /\ cache' = cache
           /\ DeletedInOrder(last'.calls) = <<>>
           /\ DOMAIN stacks \subseteq DOMAIN stacks']_vars

\* An init on a fresh namespace failed at the CA stack: the bootstrap stack
\* is deployed, there is no pointer record and no state blob.
C24_Witness ==
    /\ last.op = "init"
    /\ IsErr(last.r)
    /\ last.r.err.kind = "StackDeployError"
    /\ last.env = {"cfn.create_stack:ca"}
    /\ DestroyRank(last.r.err.stack_name) = 3
    /\ init_stack_name(NS) \in DOMAIN stacks
    /\ stacks[init_stack_name(NS)].status = "CREATE_COMPLETE"
    /\ ssm = None
    /\ state_key(NS) \notin DOMAIN s3

\* C25: an init whose remote calls all succeed (with an ARN given in the
\* pca-existing mode) returns Ok with a state that has its init, the
\* namespace is initialized afterwards and a load returns that state.
C25_InitCreatesState ==
    [][(/\ Ran("init")
        /\ last'.env = {}
        /\ (last'.args.ca_mode = "pca-existing" => last'.args.pca_arn # None))
        => /\ IsOk(last'.r)
           /\ is_initialized(last'.r.ok)
           /\ Initialized'
           /\ Loaded' = Ok(last'.r.ok)]_vars

\* C38: in an init with a self-signed CA, a failed upload of the CA
\* certificate is the last call: init returns that S3WriteError, no file is
\* written and no call is made on the CA stack, which stays as it was; a
\* call on the CA stack is made only after the upload, and only with the
\* certificate in the bucket and the private key in its file.
C38_SelfSignedSequential ==
    [][(Ran("init") /\ last'.args.ca_mode = "self-signed")
        => LET name == ca_stack_name(NS, "default")
               cert == ca_cert_s3_key(NS, "default")
               path == ca_key_local_path(NS, "default")
               ups == {i \in DOMAIN last'.calls : last'.calls[i] = <<"s3.put_object", cert>>}
               cfn == {i \in DOMAIN last'.calls : last'.calls[i][2] = name}
           IN
           /\ "s3.put_object" \in last'.env
                => /\ last'.r = Err([kind |-> "S3WriteError", key |-> cert,
                                     reason |-> ClientErrorText])
                   /\ ups = {Len(last'.calls)}
                   /\ cfn = {}
                   /\ files' = files
                   /\ s3' = s3
                   /\ (name \in DOMAIN stacks') = (name \in DOMAIN stacks)
                   /\ name \in DOMAIN stacks => stacks'[name] = stacks[name]
           /\ cfn # {}
                => /\ Cardinality(ups) = 1
                   /\ \A i \in cfn, j \in ups : j < i
                   /\ cert \in DOMAIN s3' /\ s3'[cert] = encode(CACertPem("default"))
                   /\ path \in DOMAIN files' /\ files'[path] = CAKeyPem("default")
           /\ files' # files => ups # {} /\ "s3.put_object" \notin last'.env]_vars

\* An init on a fresh namespace deployed the bootstrap stack, failed to
\* upload the CA certificate and stopped: no key file, no CA stack.
C38_Witness ==
    /\ last.op = "init"
    /\ last.args.ca_mode = "self-signed"
    /\ last.env = {"s3.put_object"}
    /\ IsErr(last.r)
    /\ last.r.err.kind = "S3WriteError"
    /\ Len(last.calls) > 1
    /\ ca_key_local_path(NS, "default") \notin DOMAIN files
    /\ ca_stack_name(NS, "default") \notin DOMAIN stacks

\* The run made no call that uploads an object or creates, updates or
\* deletes a stack.
NoEffectCall(calls) ==
    \A i \in DOMAIN calls :
        calls[i][1] \notin {"s3.put_object", "s3.delete_object", "ssm.put_parameter",
                            "cfn.create_stack", "cfn.update_stack", "cfn.delete_stack"}

\* The part of the world a workflow can change, but for the cache and the
\* clock, is as it was.
NothingChanged ==
    /\ stacks' = stacks
    /\ s3' = s3
    /\ ssm' = ssm
    /\ files' = files

C27_DeleteScopeFrame ==
    [][(Ran("delete_scope") /\ LoadsInitialized)
        => /\ last'.args.scope \in DOMAIN Loaded.ok.cas =>
                /\ last'.env = {} => last'.r = Ok(None)
                /\ files' = files
                /\ \A i \in DOMAIN last'.calls : last'.calls[i][1] # "s3.delete_object"
                /\ \A k \in (DOMAIN s3 \cup DOMAIN s3') \ {state_key(NS)} :
                      k \in DOMAIN s3 /\ k \in DOMAIN s3' /\ s3'[k] = s3[k]
                /\ IsOk(last'.r) =>
                     /\ StackGone(stacks', Loaded.ok.cas[last'.args.scope].stack_name)
                     /\ \A n \in DOMAIN stacks :
                          n # Loaded.ok.cas[last'.args.scope].stack_name
                            => n \in DOMAIN stacks' /\ stacks'[n] = stacks[n]
                     /\ Initialized'
                     /\ PersistedState' =
                          [Loaded.ok EXCEPT !.cas = Remove(@, last'.args.scope)]
           /\ last'.args.scope \notin DOMAIN Loaded.ok.cas =>
                /\ NoEffectCall(last'.calls)
                /\ NothingChanged
                /\ ~IsOk(last'.r)
                /\ last'.env = {} =>
                     last'.r = Err([kind |-> "CAScopeNotFoundError",
                                    scope |-> last'.args.scope])]_vars

\* delete_scope removed scope cm: its stack is gone and it left the state,
\* while its certificate object and its key file are still there.
C27_Witness ==
    /\ last.op = "delete_scope"
    /\ last.args.scope = "cm"
    /\ last.r = Ok(None)
    /\ StackGone(stacks, ca_stack_name(NS, "cm"))
    /\ Initialized
    /\ DOMAIN PersistedState.cas = {"default"}
    /\ ca_cert_s3_key(NS, "cm") \in DOMAIN s3
    /\ ca_key_local_path(NS, "cm") \in DOMAIN files


-----------------------------------------------------------------------------
(* Specification SpecRace: two invocations for the namespace run at the     *)
(* same time; each loads the state, adds a role to it in memory and saves   *)

Procs == {"p1", "p2"}

\* The role each invocation adds.
RoleOf(p) == IF p = "p1" THEN "ops" ELSE "dev"

\* workflows/role.py create_role: state.roles[name] = role
AddRole(state, name) ==
    [state EXCEPT !.roles = (name :> RoleRec(name, <<>>, "default")) @@ @]

\* The blob writes made so far.
Writes == IF \E p \in DOMAIN procs : procs[p].wrote > 0
          THEN CHOOSE n \in 1..2 : /\ \E p \in DOMAIN procs : procs[p].wrote = n
                                   /\ \A p \in DOMAIN procs : procs[p].wrote <= n
          ELSE 0

InitRace ==
    /\ SeedV1 \/ SeedV1Host \/ SeedV1TwoHosts \/ SeedV2 \/ SeedScoped \/ SeedNone
    /\ cache = None
    /\ clock = 0
    /\ last = NoRun
    /\ blob = NotYet /\ parsed = NotYet /\ dumped = NotYet /\ runs = 0
    /\ procs = [p \in Procs |-> [pc |-> "start", state |-> None, wrote |-> 0]]

\* The invocation loads the state; without an initialized state it returns.
RaceLoad(p) ==
    /\ procs[p].pc = "start"
    /\ \E out \in {load_initialized(World, {}, NS, FALSE)} :
        /\ cache' = out.w.cache
        /\ procs' = [procs EXCEPT ![p].pc = IF IsOk(out.r) THEN "loaded" ELSE "done",
                                  ![p].state = IF IsOk(out.r) THEN out.r.ok ELSE None]
    /\ UNCHANGED <<stacks, s3, ssm, files, clock, last, blob, parsed, dumped, runs>>

\* It changes the state it holds in memory.
RaceMutate(p) ==
    /\ procs[p].pc = "loaded"
    /\ procs' = [procs EXCEPT ![p].pc = "mutated",
                              ![p].state = AddRole(@, RoleOf(p))]
    /\ UNCHANGED <<stacks, s3, ssm, cache, files, clock, last, blob, parsed, dumped, runs>>

\* save writes the blob.
RacePut(p) ==
    /\ procs[p].pc = "mutated"
    /\ s3' = save_put(World, procs[p].state).s3
    /\ procs' = [procs EXCEPT ![p].pc = "put", ![p].wrote = Writes + 1]
    /\ UNCHANGED <<stacks, ssm, cache, files, clock, last, blob, parsed, dumped, runs>>

\* save updates the pointer record.
RacePointer(p) ==
    /\ procs[p].pc = "put"
    /\ ssm' = save_pointer(World, procs[p].state).ssm
    /\ procs' = [procs EXCEPT ![p].pc = "pointed"]
    /\ UNCHANGED <<stacks, s3, cache, files, clock, last, blob, parsed, dumped, runs>>

\* save writes the cache and returns Ok.
RaceCache(p) ==
    /\ procs[p].pc = "pointed"
    /\ cache' = save_cache(World, procs[p].state).cache
    /\ procs' = [procs EXCEPT ![p].pc = "done"]
    /\ UNCHANGED <<stacks, s3, ssm, files, clock, last, blob, parsed, dumped, runs>>

NextRace ==
    \/ \E p \in Procs : RaceLoad(p)
    \/ \E p \in Procs : RaceMutate(p)
    \/ \E p \in Procs : RacePut(p)
    \/ \E p \in Procs : RacePointer(p)
    \/ \E p \in Procs : RaceCache(p)

SpecRace == InitRace /\ [][NextRace]_vars

\* C30: at every moment the state blob is exactly what the invocation whose
\* blob write came last wrote, the state it held in memory, with nothing of
\* the blob it replaced merged in; and no invocation ever waits for the
\* other: whatever the other's position, its next step is enabled.
C30_LastWriterWins ==
    /\ \A p \in DOMAIN procs :
          (procs[p].wrote > 0 /\ procs[p].wrote = Writes)
            => s3[state_key(NS)] = encode(to_json(procs[p].state))
    /\ \A p \in DOMAIN procs :
          procs[p].pc # "done" =>
             ENABLED (RaceLoad(p) \/ RaceMutate(p) \/ RacePut(p)
                        \/ RacePointer(p) \/ RaceCache(p))

\* Both invocations have saved; p1 wrote the blob first, and the role it
\* added is not in the persisted state, which has the role p2 added.
C30_Witness ==
    /\ DOMAIN procs = Procs
    /\ procs["p1"].pc = "done" /\ procs["p2"].pc = "done"
    /\ procs["p1"].wrote = 1 /\ procs["p2"].wrote = 2
    /\ Initialized
    /\ "ops" \notin DOMAIN PersistedState.roles
    /\ "dev" \in DOMAIN PersistedState.roles

-----------------------------------------------------------------------------
(* Specification SpecIntegrity: role create/delete and host onboard/offboard *)
(* one at a time, with no forced role delete                                 *)

WfDeleteRoleUnforced ==
    \E name \in RoleNames, F \in FaultSets(StateFaults \cup DeleteFaults) :
        Invoke("delete_role", [name |-> name, force |-> FALSE], F,
               delete_role(World, F, NS, name, FALSE))

NextIntegrity ==
    \/ WfCreateRole \/ WfDeleteRoleUnforced
    \/ WfOnboard \/ WfOffboard
    \/ CfnSettle

SpecIntegrity == Init /\ [][NextIntegrity]_vars

\* Every host of the state has a role_name that is a key of its roles.
HostsReferToRoles(state) ==
    \A h \in DOMAIN state.hosts : state.hosts[h].role_name \in DOMAIN state.roles

\* C40: after any sequence of create_role, delete_role without force,
\* onboard and offboard invocations run one at a time, failing ones
\* included, every host of the persisted state has a role_name that is a
\* key of its roles.
C40_HostRoleIntegrity ==
    (PersistedState # None /\ ~IsRaised(PersistedState))
        => HostsReferToRoles(PersistedState)

\* A delete_role without force was refused with RoleInUseError for a role
\* that a host of the persisted state references, after an earlier workflow
\* had changed the namespace.
C40_Witness ==
    /\ last.op = "delete_role"
    /\ runs = 2
    /\ IsErr(last.r)
    /\ last.r.err.kind = "RoleInUseError"
    /\ Initialized
    /\ \E h \in DOMAIN PersistedState.hosts :
            PersistedState.hosts[h].role_name = last.args.name

\* The failures the spec lets a workflow drop: the object deletions of the
\* host offboard operation's cleanup, which offboard and destroy call, and
\* the fetch of the event history (an event history without a failed event,
\* and a bucket that outlives its stack, are no failing calls).
Discardable(op) ==
    {"cfn.describe_stack_events", "cfn.no_failure_event", "s3.bucket_kept"}
        \cup (IF op \in {"offboard", "destroy"} THEN {"s3.delete_object"} ELSE {})

\* C31: a workflow in which a remote call fails, other than a deletion of
\* offboard's object cleanup and the fetch of a stack's event history,
\* returns Err; in particular a migrate whose deletion of the legacy
\* certificate object fails.
C31_OnlyTwoSilentDiscards ==
    [][(last'.seq # last.seq /\ last'.env \ Discardable(last'.op) # {})
        => IsErr(last'.r)]_vars

\* The kind of the error the failing call itself returns: _get_state_location
\* and _set_state_location for the pointer, read_object and write_object for
\* an object.
ProducedKind(fault) ==
    CASE fault = "ssm.get_parameter" -> "SSMReadError"
      [] fault = "ssm.put_parameter" -> "SSMWriteError"
      [] fault = "s3.get_object" -> "S3ReadError"
      [] fault = "s3.put_object" -> "S3WriteError"

\* C32: a workflow that returns an error because a pointer read, a pointer
\* write, an object read or an object write failed returns an error of the
\* kind that call produced, not one of another kind.
C32_ErrorKindsPreserved ==
    [][\A fault \in {"ssm.get_parameter", "ssm.put_parameter",
                     "s3.get_object", "s3.put_object"} :
        (last'.seq # last.seq /\ last'.env = {fault} /\ IsErr(last'.r))
        => last'.r.err.kind = ProducedKind(fault)]_vars

-----------------------------------------------------------------------------
(* Specification SpecMigrate: migrate, after scope deletions or an earlier *)
(* migrate, against each of the seeded namespaces                           *)

\* The failures a migrate returns Ok in spite of, those of the role stack
\* updates, and that of the save.
MigrateFaults == {"s3.head_object", "s3.delete_object",
                  "cfn.update_stack", "cfn.settle:update", "ssm.put_parameter"}

MigDeleteScope ==
    \E scope \in ScopeNames,
       F \in FaultSets({"cfn.delete_stack", "cfn.hang", "s3.put_object:state"}) :
        Invoke("delete_scope", [scope |-> scope], F, delete_scope(World, F, NS, scope))

MigMigrate ==
    \E F \in FaultSets(MigrateFaults) :
        Invoke("migrate", [namespace |-> NS], F, migrate(World, F, NS))

NextMigrate ==
    \/ MigDeleteScope
    \/ MigMigrate
    \/ CfnSettle

SpecMigrate == Init /\ [][NextMigrate]_vars

\* The roles of a state whose scope has a CA in it.
RolesWithCA(state) ==
    {n \in DOMAIN state.roles : state.roles[n].scope \in DOMAIN state.cas}

\* The run made a create_stack or update_stack call on the stack.
Deployed_(calls, stack_name) ==
    \E i \in DOMAIN calls :
        calls[i] \in {<<"cfn.create_stack", stack_name>>, <<"cfn.update_stack", stack_name>>}

\* The names roles_updated holds.
Named(roles_updated) == {roles_updated[i] : i \in DOMAIN roles_updated}

-----------------------------------------------------------------------------
(* Specification SpecJson: State.from_json / State.to_json on their own *)

BaseBlob(version) == [namespace |-> NS, region |-> Region, version |-> version]

CaOpts == {<<>>} \cup {("ca" :> v) : v \in {None, CARec(rootca_stack_name(NS)),
                                           Without(CARec(rootca_stack_name(NS)), "pca_arn")}}
CasOpts == {<<>>} \cup
    {("cas" :> v) : v \in {<<>>,
                           [default |-> CARec(ca_stack_name(NS, "default"))],
                           [cm |-> CARec(ca_stack_name(NS, "cm"))],
                           [default |-> CARec(rootca_stack_name(NS)),
                            cm |-> CARec(ca_stack_name(NS, "cm"))]}}
RolesOpts ==
    {("roles" :> v) : v \in {<<>>,
                             [admin |-> Without(RoleRec("admin", <<>>, "default"), "scope")],
                             [admin |-> RoleRec("admin", <<PolicyArn>>, "cm")],
                             [admin |-> Without(RoleRec("admin", <<PolicyArn>>, "default"), "scope"),
                              ops |-> RoleRec("ops", <<>>, "default")]}}
HostsOpts == {<<>>, ("hosts" :> <<>>), ("hosts" :> [web1 |-> HostRec("web1", "admin")])}
InitOpts == {("init" :> None), ("init" :> InitRec)}

\* Objects on which from_json raises: a missing required key, a malformed
\* ARN, an unknown CA mode, text that is not JSON.
BadBlobs ==
    {Without(V1Blob({}, {}), "region"),
     [V1Blob({}, {}) EXCEPT !.init.bucket_arn = [arn |-> <<"bucket">>]],
     [V1Blob({}, {}) EXCEPT !.ca.mode = "acme-ca"],
     NotJson}

RawBlobs ==
    {BaseBlob(v) @@ a @@ b @@ c @@ d @@ e :
        v \in {"1.0.0"}, a \in CaOpts, b \in CasOpts, c \in RolesOpts,
        d \in HostsOpts, e \in InitOpts}
    \cup BadBlobs

QuietWorld ==
    /\ stacks = <<>> /\ s3 = <<>> /\ ssm = None /\ cache = None
    /\ files = <<>> /\ clock = 0 /\ last = NoRun

InitJson ==
    /\ QuietWorld
    /\ blob \in RawBlobs
    /\ parsed = NotYet
    /\ dumped = NotYet
    /\ runs = 0
    /\ procs = <<>>

\* parsed = State.from_json(blob)
JsonParse ==
    /\ parsed = NotYet
    /\ parsed' = from_json(blob)
    /\ UNCHANGED <<blob, dumped, stacks, s3, ssm, cache, files, clock, last, runs, procs>>

\* dumped = parsed.to_json()
JsonDump ==
    /\ parsed # NotYet /\ ~IsRaised(parsed)
    /\ dumped = NotYet
    /\ dumped' = to_json(parsed)
    /\ UNCHANGED <<blob, parsed, stacks, s3, ssm, cache, files, clock, last, runs, procs>>

\* The serialised text is stored and becomes the next text to read.
JsonReload ==
    /\ dumped # NotYet
    /\ blob' = dumped
    /\ parsed' = NotYet
    /\ dumped' = NotYet
    /\ UNCHANGED <<stacks, s3, ssm, cache, files, clock, last, runs, procs>>

NextJson == JsonParse \/ JsonDump \/ JsonReload

SpecJson == InitJson /\ [][NextJson]_vars

\* Every key the JSON object d carries for the record obj is preserved.
Agrees(obj, d) == \A f \in DOMAIN d \cap DOMAIN obj : obj[f] = d[f]

\* C7: from_json reads both generations.  A 'ca' key without 'cas' yields
\* cas = {'default': that CA}, or {} when 'ca' is null; a blob with 'cas' is
\* read as it is, a stray 'ca' ignored; a role without 'scope' gets scope
\* 'default'; every other field of the blob is preserved.
C7_FromJsonBothGenerations ==
    (parsed # NotYet /\ ~IsRaised(parsed)) =>
        /\ ("ca" \in DOMAIN blob /\ "cas" \notin DOMAIN blob) =>
                IF blob.ca = None
                THEN DOMAIN parsed.cas = {}
                ELSE /\ DOMAIN parsed.cas = {"default"}
                     /\ Agrees(parsed.cas["default"], blob.ca)
        /\ "cas" \in DOMAIN blob =>
                /\ DOMAIN parsed.cas = DOMAIN blob.cas
                /\ \A k \in DOMAIN blob.cas : Agrees(parsed.cas[k], blob.cas[k])
        /\ DOMAIN parsed.roles = DOMAIN blob.roles
        /\ \A n \in DOMAIN blob.roles :
                /\ Agrees(parsed.roles[n], blob.roles[n])
                /\ "scope" \notin DOMAIN blob.roles[n] => parsed.roles[n].scope = "default"
        /\ \A f \in DOMAIN blob \ {"ca", "cas", "roles"} : parsed[f] = blob[f]

\* A v1 blob with a CA and a role that has no scope has been read.
C7_Witness ==
    /\ parsed # NotYet /\ ~IsRaised(parsed)
    /\ "ca" \in DOMAIN blob /\ "cas" \notin DOMAIN blob
    /\ blob.ca # None
    /\ \E n \in DOMAIN blob.roles : "scope" \notin DOMAIN blob.roles[n]

====
